---------------------------- MODULE Spec2Model ----------------------------
(***************************************************************************)
(* RV32I instruction-level simulator (src/src/lib.rs, struct RiscvCpu).    *)
(*                                                                         *)
(* A u32 / i32 value is modelled by its 32-bit pattern, kept as the pair   *)
(* <<hi, lo>> of its two 16-bit halves (TLC's integers are 32-bit signed,  *)
(* so 0x80000000..0xFFFFFFFF do not fit a single integer).  `as i32` and   *)
(* `as u32` casts keep the pattern; signedness lives in the operators.     *)
(***************************************************************************)
EXTENDS Integers, Sequences, FiniteSets, TLC

VARIABLES
    regs,             \* RiscvCpu.regs : [u32; 32]
    pc,               \* RiscvCpu.pc   : u32
    bus,              \* RiscvCpu.bus  : Vec<u8>, 1024 bytes
    overflow_checks,  \* build profile: TRUE = debug (overflow panics), FALSE = release (wraps)
    outcome,          \* "new" (no call yet) | "loaded" (an instruction was written
                      \* for the next call) | "ok" | "panic" (how the last call ended)
    instr,            \* the instruction word the last call executed
    pre,              \* regs/pc/bus as they were when the last call started
    steps             \* number of step()/handler calls made so far

vars == <<regs, pc, bus, overflow_checks, outcome, instr, pre, steps>>

---------------------------------------------------------------------------
(* 32-bit words                                                            *)

Half == 65536

BusLen == 1024

NumRegs == 32

W(hi, lo) == <<hi, lo>>

Hi(w) == w[1]

Lo(w) == w[2]

\* a small non-negative literal as a u32
U(n) == W(n \div Half, n % Half)

Zero == W(0, 0)

\* bit 31
Sign(w) == Hi(w) \div 32768

\* u32::wrapping_add / i32::wrapping_add (same bit pattern)
wrapping_add(a, b) ==
    LET lo == Lo(a) + Lo(b)
        hi == Hi(a) + Hi(b) + (lo \div Half)
    IN  W(hi % Half, lo % Half)

\* carry out of bit 31: the u32 `+` overflows
add_overflows_u32(a, b) ==
    LET lo == Lo(a) + Lo(b)
    IN  Hi(a) + Hi(b) + (lo \div Half) >= Half

\* the i32 `+` overflows: equal operand signs, different result sign
add_overflows_i32(a, b) ==
    /\ Sign(a) = Sign(b)
    /\ Sign(wrapping_add(a, b)) # Sign(a)

\* bitwise complement
not32(a) == W(Half - 1 - Hi(a), Half - 1 - Lo(a))

\* u32::wrapping_sub:  a - b = a + !b + 1
wrapping_sub(a, b) == wrapping_add(wrapping_add(a, not32(b)), U(1))

RECURSIVE and_bits(_, _, _)
and_bits(x, y, n) ==
    IF n = 0 THEN 0
    ELSE (IF x % 2 = 1 /\ y % 2 = 1 THEN 1 ELSE 0)
         + 2 * and_bits(x \div 2, y \div 2, n - 1)

RECURSIVE or_bits(_, _, _)
or_bits(x, y, n) ==
    IF n = 0 THEN 0
    ELSE (IF x % 2 = 1 \/ y % 2 = 1 THEN 1 ELSE 0)
         + 2 * or_bits(x \div 2, y \div 2, n - 1)

RECURSIVE xor_bits(_, _, _)
xor_bits(x, y, n) ==
    IF n = 0 THEN 0
    ELSE (IF x % 2 # y % 2 THEN 1 ELSE 0)
         + 2 * xor_bits(x \div 2, y \div 2, n - 1)

\* a & b, a | b, a ^ b on u32
and32(a, b) == W(and_bits(Hi(a), Hi(b), 16), and_bits(Lo(a), Lo(b), 16))

or32(a, b) == W(or_bits(Hi(a), Hi(b), 16), or_bits(Lo(a), Lo(b), 16))

xor32(a, b) == W(xor_bits(Hi(a), Hi(b), 16), xor_bits(Lo(a), Lo(b), 16))

\* a << n on u32, 0 <= n <= 31 (bits shifted out are dropped)
shl32(a, n) ==
    IF n >= 16
    THEN W((Lo(a) * 2^(n - 16)) % Half, 0)
    ELSE W((Hi(a) * 2^n + (Lo(a) * 2^n) \div Half) % Half, (Lo(a) * 2^n) % Half)

\* a >> n on u32 (logical), 0 <= n <= 31
shr32(a, n) ==
    IF n >= 16
    THEN W(0, Hi(a) \div 2^(n - 16))
    ELSE W(Hi(a) \div 2^n, (Lo(a) \div 2^n) + (Hi(a) % 2^n) * 2^(16 - n))

\* (a as i32) >> n (arithmetic), 0 <= n <= 31
sar32(a, n) ==
    IF Sign(a) = 1 THEN not32(shr32(not32(a), n)) ELSE shr32(a, n)

\* a < b as u32
lt_u32(a, b) == Hi(a) < Hi(b) \/ (Hi(a) = Hi(b) /\ Lo(a) < Lo(b))

\* (a as i32) < (b as i32)
lt_i32(a, b) ==
    IF Sign(a) # Sign(b) THEN Sign(a) = 1 ELSE lt_u32(a, b)

\* ((w >> shift) & mask) for a mask 2^k - 1 with k <= 20, as a natural number
field(w, shift, k) ==
    LET s == shr32(w, shift)
    IN  IF k <= 16 THEN Lo(s) % 2^k
        ELSE (Hi(s) % 2^(k - 16)) * Half + Lo(s)


---------------------------------------------------------------------------
(* Register file and memory                                                *)

\* self.bus[a + k] is inside the vector (a = addr as usize)
index_ok(addr, k) == Hi(addr) = 0 /\ Lo(addr) + k < BusLen

\* faulty variant of write_reg: the reg != 0 test is missing
write_reg_unguarded(rs, reg, value) == [rs EXCEPT ![reg] = value]

\* faulty variant of write_reg: the value lands in the register after reg
write_reg_shifted(rs, reg, value) ==
    IF reg # 0 THEN [rs EXCEPT ![(reg + 1) % NumRegs] = value] ELSE rs

\* fn write_reg: register 0 is never written
write_reg(rs, reg, value) ==
    IF reg # 0 THEN [rs EXCEPT ![reg] = value] ELSE rs

\* faulty variant of read_raw: a byte outside the vector reads as 0 instead
\* of panicking
read_raw_lenient(b, addr, size) ==
    LET n == CASE size = "Byte" -> 1 [] size = "Half" -> 2 [] size = "Word" -> 4
        byte(k) == IF k < n /\ index_ok(addr, k) THEN b[Lo(addr) + k] ELSE 0
    IN  [panic |-> FALSE,
         value |-> W(byte(3) * 256 + byte(2), byte(1) * 256 + byte(0))]

\* fn read_raw: little-endian read; an index outside the vector panics
read_raw(b, addr, size) ==
    LET a == Lo(addr)
    IN  CASE size = "Byte" ->
               IF index_ok(addr, 0)
               THEN [panic |-> FALSE, value |-> U(b[a])]
               ELSE [panic |-> TRUE, value |-> Zero]
          [] size = "Half" ->
               IF index_ok(addr, 0) /\ index_ok(addr, 1)
               THEN [panic |-> FALSE,
                     value |-> or32(U(b[a]), shl32(U(b[a + 1]), 8))]
               ELSE [panic |-> TRUE, value |-> Zero]
          [] size = "Word" ->
               IF /\ index_ok(addr, 0) /\ index_ok(addr, 1)
                  /\ index_ok(addr, 2) /\ index_ok(addr, 3)
               THEN [panic |-> FALSE,
                     value |-> or32(or32(or32(U(b[a]), shl32(U(b[a + 1]), 8)),
                                         shl32(U(b[a + 2]), 16)),
                                    shl32(U(b[a + 3]), 24))]
               ELSE [panic |-> TRUE, value |-> Zero]

\* (raw as i8 as i32) as u32
sext8(raw) ==
    LET v == Lo(raw) % 256
    IN  IF v >= 128 THEN W(Half - 1, Half - 256 + v) ELSE W(0, v)

\* (raw as i16 as i32) as u32
sext16(raw) ==
    IF Lo(raw) >= 32768 THEN W(Half - 1, Lo(raw)) ELSE W(0, Lo(raw))

\* faulty variant of extend: the signed flag is ignored and every byte or
\* halfword is sign-extended
extend_always_signed(raw, size, signed) ==
    IF raw.panic THEN raw
    ELSE CASE size = "Byte" -> [raw EXCEPT !.value = sext8(raw.value)]
           [] size = "Half" -> [raw EXCEPT !.value = sext16(raw.value)]
           [] size = "Word" -> raw

\* the tail of fn load: the raw value as it is, or sign-extended by size
extend(raw, size, signed) ==
    IF raw.panic \/ ~signed THEN raw
    ELSE CASE size = "Byte" -> [raw EXCEPT !.value = sext8(raw.value)]
           [] size = "Half" -> [raw EXCEPT !.value = sext16(raw.value)]
           [] size = "Word" -> raw

\* fn load
load(b, addr, size, signed) == extend(read_raw(b, addr, size), size, signed)

\* one indexed assignment self.bus[a + k] = v of fn store; it panics outside
\* the vector, and the assignments made before it stay made
put(r, addr, k, v) ==
    IF r.panic THEN r
    ELSE IF index_ok(addr, k)
         THEN [r EXCEPT !.bus[Lo(addr) + k] = v]
         ELSE [r EXCEPT !.panic = TRUE]

\* faulty variant of store: MemSize::Byte writes two bytes and MemSize::Half
\* four
store_wide(b, addr, size, value) ==
    LET r0 == [panic |-> FALSE, bus |-> b]
    IN  CASE size = "Byte" ->
               put(put(r0, addr, 0, field(value, 0, 8)),
                   addr, 1, field(value, 8, 8))
          [] size \in {"Half", "Word"} ->
               put(put(put(put(r0, addr, 0, field(value, 0, 8)),
                           addr, 1, field(value, 8, 8)),
                       addr, 2, field(value, 16, 8)),
                   addr, 3, field(value, 24, 8))

\* faulty variant of store: the bytes go to memory most significant first
store_big_endian(b, addr, size, value) ==
    LET r0 == [panic |-> FALSE, bus |-> b]
    IN  CASE size = "Byte" ->
               put(r0, addr, 0, field(value, 0, 8))
          [] size = "Half" ->
               put(put(r0, addr, 0, field(value, 8, 8)),
                   addr, 1, field(value, 0, 8))
          [] size = "Word" ->
               put(put(put(put(r0, addr, 0, field(value, 24, 8)),
                           addr, 1, field(value, 16, 8)),
                       addr, 2, field(value, 8, 8)),
                   addr, 3, field(value, 0, 8))

\* fn store
store(b, addr, size, value) ==
    LET r0 == [panic |-> FALSE, bus |-> b]
    IN  CASE size = "Byte" ->
               put(r0, addr, 0, field(value, 0, 8))
          [] size = "Half" ->
               put(put(r0, addr, 0, field(value, 0, 8)),
                   addr, 1, field(value, 8, 8))
          [] size = "Word" ->
               put(put(put(put(r0, addr, 0, field(value, 0, 8)),
                           addr, 1, field(value, 8, 8)),
                       addr, 2, field(value, 16, 8)),
                   addr, 3, field(value, 24, 8))

\* faulty variant of fetch: the address wraps around at the end of the
\* vector instead of panicking
fetch_wrapping(c) ==
    LET byte(k) == c.bus[(Lo(c.pc) + k) % BusLen]
    IN  [panic |-> FALSE,
         value |-> W(byte(3) * 256 + byte(2), byte(1) * 256 + byte(0))]

\* faulty variant of fetch: the four bytes are read most significant first
fetch_big_endian(c) ==
    IF Hi(c.pc) = 0 /\ Lo(c.pc) + 4 <= BusLen
    THEN LET a == Lo(c.pc)
         IN  [panic |-> FALSE,
              value |-> W(c.bus[a] * 256 + c.bus[a + 1],
                          c.bus[a + 2] * 256 + c.bus[a + 3])]
    ELSE [panic |-> TRUE, value |-> Zero]

\* fn fetch: &self.bus[addr..addr + 4] panics unless addr + 4 <= len
fetch(c) ==
    IF Hi(c.pc) = 0 /\ Lo(c.pc) + 4 <= BusLen
    THEN LET a == Lo(c.pc)
         IN  [panic |-> FALSE,
              value |-> W(c.bus[a + 3] * 256 + c.bus[a + 2],
                          c.bus[a + 1] * 256 + c.bus[a])]
    ELSE [panic |-> TRUE, value |-> Zero]

---------------------------------------------------------------------------
(* Instruction handlers.  A handler maps the cpu c = [regs, pc, bus] and   *)
(* the instruction word to [panic, regs, bus] (and next_pc for the         *)
(* handlers that take &mut next_pc); panic = TRUE is a Rust panic, with    *)
(* regs and bus as they are at the moment of the panic.                    *)

\* the I-type immediate: (instruction as i32) >> 20
i_imm(instruction) == sar32(instruction, 20)

\* the S-type immediate of fn handle_store
s_imm(instruction) ==
    LET i4_0   == field(instruction, 7, 5)
        i11_5  == field(instruction, 25, 7)
        imm_u  == U(or_bits(i11_5 * 32, i4_0, 12))
    IN  sar32(shl32(imm_u, 20), 20)

\* faulty variant of b_imm: the 13-bit value is not sign-extended
b_imm_unsigned(instruction) ==
    LET i12    == field(instruction, 31, 1)
        i11    == field(instruction, 7, 1)
        i10_5  == field(instruction, 25, 6)
        i4_1   == field(instruction, 8, 4)
    IN  U(or_bits(or_bits(or_bits(i12 * 4096, i11 * 2048, 13),
                          i10_5 * 32, 13), i4_1 * 2, 13))

\* the B-type immediate of fn handle_btype
b_imm(instruction) ==
    LET i12    == field(instruction, 31, 1)
        i11    == field(instruction, 7, 1)
        i10_5  == field(instruction, 25, 6)
        i4_1   == field(instruction, 8, 4)
        imm_u32 == U(or_bits(or_bits(or_bits(i12 * 4096, i11 * 2048, 13),
                                     i10_5 * 32, 13), i4_1 * 2, 13))
    IN  sar32(shl32(imm_u32, 19), 19)

\* the J-type immediate of fn handle_jal
j_imm(instruction) ==
    LET i19_12 == field(instruction, 12, 8)
        i11    == field(instruction, 20, 1)
        i10_1  == field(instruction, 21, 10)
        i20    == field(instruction, 31, 1)
        imm_u32 == U(or_bits(or_bits(or_bits(i20 * 1048576, i19_12 * 4096, 21),
                                     i11 * 2048, 21), i10_1 * 2, 21))
    IN  sar32(shl32(imm_u32, 11), 11)

Returned(c, rs) == [panic |-> FALSE, regs |-> rs, bus |-> c.bus]

Panicked(c) == [panic |-> TRUE, regs |-> c.regs, bus |-> c.bus]

Bool32(p) == IF p THEN U(1) ELSE Zero

\* faulty variant of handle_rtype: the shift amount is the whole rs2 value,
\* and a shift by 32 or more leaves 0 (SLL, SRL) or the sign fill (SRA)
handle_rtype_shift_unmasked(c, instruction) ==
    LET rd     == field(instruction, 7, 5)
        funct3 == field(instruction, 12, 3)
        rs1    == field(instruction, 15, 5)
        rs2    == field(instruction, 20, 5)
        funct7 == field(instruction, 25, 7)
        rs1_value == c.regs[rs1]
        rs2_value == c.regs[rs2]
        shamt  == Lo(rs2_value) % 32
        over   == Hi(rs2_value) # 0 \/ Lo(rs2_value) >= 32
        bad    == funct3 \in {0, 5} /\ funct7 \notin {0, 32}
        rd_value ==
            CASE funct3 = 0 /\ funct7 = 0  -> wrapping_add(rs1_value, rs2_value)
              [] funct3 = 0 /\ funct7 = 32 -> wrapping_sub(rs1_value, rs2_value)
              [] funct3 = 4 -> xor32(rs1_value, rs2_value)
              [] funct3 = 6 -> or32(rs1_value, rs2_value)
              [] funct3 = 7 -> and32(rs1_value, rs2_value)
              [] funct3 = 1 -> IF over THEN Zero ELSE shl32(rs1_value, shamt)
              [] funct3 = 5 /\ funct7 = 0  ->
                    IF over THEN Zero ELSE shr32(rs1_value, shamt)
              [] funct3 = 5 /\ funct7 = 32 ->
                    IF over THEN sar32(rs1_value, 31) ELSE sar32(rs1_value, shamt)
              [] funct3 = 2 -> Bool32(lt_i32(rs1_value, rs2_value))
              [] funct3 = 3 -> Bool32(lt_u32(rs1_value, rs2_value))
    IN  IF bad THEN Panicked(c)
        ELSE Returned(c, write_reg(c.regs, rd, rd_value))

\* faulty variant of handle_rtype: the funct7 arms of funct3 0 are swapped
\* (0x00 subtracts, 0x20 adds)
handle_rtype_swapped(c, instruction) ==
    LET rd     == field(instruction, 7, 5)
        funct3 == field(instruction, 12, 3)
        rs1    == field(instruction, 15, 5)
        rs2    == field(instruction, 20, 5)
        funct7 == field(instruction, 25, 7)
        rs1_value == c.regs[rs1]
        rs2_value == c.regs[rs2]
        shamt  == Lo(rs2_value) % 32
        bad    == funct3 \in {0, 5} /\ funct7 \notin {0, 32}
        rd_value ==
            CASE funct3 = 0 /\ funct7 = 0  -> wrapping_sub(rs1_value, rs2_value)
              [] funct3 = 0 /\ funct7 = 32 -> wrapping_add(rs1_value, rs2_value)
              [] funct3 = 4 -> xor32(rs1_value, rs2_value)
              [] funct3 = 6 -> or32(rs1_value, rs2_value)
              [] funct3 = 7 -> and32(rs1_value, rs2_value)
              [] funct3 = 1 -> shl32(rs1_value, shamt)
              [] funct3 = 5 /\ funct7 = 0  -> shr32(rs1_value, shamt)
              [] funct3 = 5 /\ funct7 = 32 -> sar32(rs1_value, shamt)
              [] funct3 = 2 -> Bool32(lt_i32(rs1_value, rs2_value))
              [] funct3 = 3 -> Bool32(lt_u32(rs1_value, rs2_value))
    IN  IF bad THEN Panicked(c)
        ELSE Returned(c, write_reg(c.regs, rd, rd_value))

\* faulty variant of handle_rtype: funct7 is checked for every funct3, and a
\* value other than 0x00 and 0x20 is rejected
handle_rtype_strict_funct7(c, instruction) ==
    LET rd     == field(instruction, 7, 5)
        funct3 == field(instruction, 12, 3)
        rs1    == field(instruction, 15, 5)
        rs2    == field(instruction, 20, 5)
        funct7 == field(instruction, 25, 7)
        rs1_value == c.regs[rs1]
        rs2_value == c.regs[rs2]
        shamt  == Lo(rs2_value) % 32
        bad    == funct7 \notin {0, 32}
        rd_value ==
            CASE funct3 = 0 /\ funct7 = 0  -> wrapping_add(rs1_value, rs2_value)
              [] funct3 = 0 /\ funct7 = 32 -> wrapping_sub(rs1_value, rs2_value)
              [] funct3 = 4 -> xor32(rs1_value, rs2_value)
              [] funct3 = 6 -> or32(rs1_value, rs2_value)
              [] funct3 = 7 -> and32(rs1_value, rs2_value)
              [] funct3 = 1 -> shl32(rs1_value, shamt)
              [] funct3 = 5 /\ funct7 = 0  -> shr32(rs1_value, shamt)
              [] funct3 = 5 /\ funct7 = 32 -> sar32(rs1_value, shamt)
              [] funct3 = 2 -> Bool32(lt_i32(rs1_value, rs2_value))
              [] funct3 = 3 -> Bool32(lt_u32(rs1_value, rs2_value))
    IN  IF bad THEN Panicked(c)
        ELSE Returned(c, write_reg(c.regs, rd, rd_value))

\* fn handle_rtype
handle_rtype(c, instruction) ==
    LET rd     == field(instruction, 7, 5)
        funct3 == field(instruction, 12, 3)
        rs1    == field(instruction, 15, 5)
        rs2    == field(instruction, 20, 5)
        funct7 == field(instruction, 25, 7)
        rs1_value == c.regs[rs1]
        rs2_value == c.regs[rs2]
        shamt  == Lo(rs2_value) % 32
        bad    == funct3 \in {0, 5} /\ funct7 \notin {0, 32}
        rd_value ==
            CASE funct3 = 0 /\ funct7 = 0  -> wrapping_add(rs1_value, rs2_value)
              [] funct3 = 0 /\ funct7 = 32 -> wrapping_sub(rs1_value, rs2_value)
              [] funct3 = 4 -> xor32(rs1_value, rs2_value)
              [] funct3 = 6 -> or32(rs1_value, rs2_value)
              [] funct3 = 7 -> and32(rs1_value, rs2_value)
              [] funct3 = 1 -> shl32(rs1_value, shamt)
              [] funct3 = 5 /\ funct7 = 0  -> shr32(rs1_value, shamt)
              [] funct3 = 5 /\ funct7 = 32 -> sar32(rs1_value, shamt)
              [] funct3 = 2 -> Bool32(lt_i32(rs1_value, rs2_value))
              [] funct3 = 3 -> Bool32(lt_u32(rs1_value, rs2_value))
    IN  IF bad THEN Panicked(c)
        ELSE Returned(c, write_reg(c.regs, rd, rd_value))

\* faulty variant of handle_itype: XORI, ORI and ANDI take the 12-bit
\* immediate zero-extended
handle_itype_logic_zext(c, instruction) ==
    LET rd     == field(instruction, 7, 5)
        funct3 == field(instruction, 12, 3)
        rs     == field(instruction, 15, 5)
        imm    == i_imm(instruction)
        rs_value == c.regs[rs]
        funct7 == field(instruction, 25, 7)
        shamt  == Lo(imm) % 32
        bad    == \/ funct3 = 5 /\ funct7 \notin {0, 32}
                  \/ funct3 = 0 /\ overflow_checks /\ add_overflows_i32(rs_value, imm)
        rd_value ==
            CASE funct3 = 0 -> wrapping_add(rs_value, imm)
              [] funct3 = 4 -> xor32(rs_value, and32(imm, U(4095)))
              [] funct3 = 6 -> or32(rs_value, and32(imm, U(4095)))
              [] funct3 = 7 -> and32(rs_value, and32(imm, U(4095)))
              [] funct3 = 1 -> shl32(rs_value, shamt)
              [] funct3 = 5 /\ funct7 = 0  -> shr32(rs_value, shamt)
              [] funct3 = 5 /\ funct7 = 32 -> sar32(rs_value, shamt)
              [] funct3 = 2 -> Bool32(lt_i32(rs_value, imm))
              [] funct3 = 3 -> Bool32(lt_u32(rs_value, imm))
    IN  IF bad THEN Panicked(c)
        ELSE IF rd # 0 THEN Returned(c, write_reg(c.regs, rd, rd_value))
        ELSE Returned(c, c.regs)

\* faulty variant of handle_itype: SLTIU compares with the zero-extended
\* 12-bit immediate
handle_itype_sltiu_zext(c, instruction) ==
    LET rd     == field(instruction, 7, 5)
        funct3 == field(instruction, 12, 3)
        rs     == field(instruction, 15, 5)
        imm    == i_imm(instruction)
        rs_value == c.regs[rs]
        funct7 == field(instruction, 25, 7)
        shamt  == Lo(imm) % 32
        bad    == \/ funct3 = 5 /\ funct7 \notin {0, 32}
                  \/ funct3 = 0 /\ overflow_checks /\ add_overflows_i32(rs_value, imm)
        rd_value ==
            CASE funct3 = 0 -> wrapping_add(rs_value, imm)
              [] funct3 = 4 -> xor32(rs_value, imm)
              [] funct3 = 6 -> or32(rs_value, imm)
              [] funct3 = 7 -> and32(rs_value, imm)
              [] funct3 = 1 -> shl32(rs_value, shamt)
              [] funct3 = 5 /\ funct7 = 0  -> shr32(rs_value, shamt)
              [] funct3 = 5 /\ funct7 = 32 -> sar32(rs_value, shamt)
              [] funct3 = 2 -> Bool32(lt_i32(rs_value, imm))
              [] funct3 = 3 -> Bool32(lt_u32(rs_value, and32(imm, U(4095))))
    IN  IF bad THEN Panicked(c)
        ELSE IF rd # 0 THEN Returned(c, write_reg(c.regs, rd, rd_value))
        ELSE Returned(c, c.regs)

\* fn handle_itype.  ADDI is (rs_value as i32 + imm): a plain `+`, which
\* panics on signed overflow when the build has overflow checks and wraps
\* when it has not.
handle_itype(c, instruction) ==
    LET rd     == field(instruction, 7, 5)
        funct3 == field(instruction, 12, 3)
        rs     == field(instruction, 15, 5)
        imm    == i_imm(instruction)
        rs_value == c.regs[rs]
        funct7 == field(instruction, 25, 7)
        shamt  == Lo(imm) % 32
        bad    == \/ funct3 = 5 /\ funct7 \notin {0, 32}
                  \/ funct3 = 0 /\ overflow_checks /\ add_overflows_i32(rs_value, imm)
        rd_value ==
            CASE funct3 = 0 -> wrapping_add(rs_value, imm)
              [] funct3 = 4 -> xor32(rs_value, imm)
              [] funct3 = 6 -> or32(rs_value, imm)
              [] funct3 = 7 -> and32(rs_value, imm)
              [] funct3 = 1 -> shl32(rs_value, shamt)
              [] funct3 = 5 /\ funct7 = 0  -> shr32(rs_value, shamt)
              [] funct3 = 5 /\ funct7 = 32 -> sar32(rs_value, shamt)
              [] funct3 = 2 -> Bool32(lt_i32(rs_value, imm))
              [] funct3 = 3 -> Bool32(lt_u32(rs_value, imm))
    IN  IF bad THEN Panicked(c)
        ELSE IF rd # 0 THEN Returned(c, write_reg(c.regs, rd, rd_value))
        ELSE Returned(c, c.regs)

\* the tail of fn handle_load: a panic inside load() happens before write_reg
loaded(c, rd, rd_value) ==
    IF rd_value.panic THEN Panicked(c)
    ELSE Returned(c, write_reg(c.regs, rd, rd_value.value))

\* fn handle_load
handle_load(c, instruction) ==
    LET rd     == field(instruction, 7, 5)
        funct3 == field(instruction, 12, 3)
        rs     == field(instruction, 15, 5)
        imm    == i_imm(instruction)
        rs_value == c.regs[rs]
        addr   == wrapping_add(rs_value, imm)
        rd_value ==
            CASE funct3 = 0 -> load(c.bus, addr, "Byte", TRUE)
              [] funct3 = 1 -> load(c.bus, addr, "Half", TRUE)
              [] funct3 = 2 -> load(c.bus, addr, "Word", TRUE)
              [] funct3 = 4 -> load(c.bus, addr, "Byte", FALSE)
              [] funct3 = 5 -> load(c.bus, addr, "Half", FALSE)
              [] OTHER      -> [panic |-> TRUE, value |-> Zero]
    IN  loaded(c, rd, rd_value)

\* the tail of fn handle_store: the bus as store() left it
stored(c, r) == [panic |-> r.panic, regs |-> c.regs, bus |-> r.bus]

\* fn handle_store
handle_store(c, instruction) ==
    LET funct3 == field(instruction, 12, 3)
        rs1    == field(instruction, 15, 5)
        rs2    == field(instruction, 20, 5)
        imm    == s_imm(instruction)
        rs1_value == c.regs[rs1]
        rs2_value == c.regs[rs2]
        addr   == wrapping_add(rs1_value, imm)
        r ==
            CASE funct3 = 0 -> store(c.bus, addr, "Byte", rs2_value)
              [] funct3 = 1 -> store(c.bus, addr, "Half", rs2_value)
              [] funct3 = 2 -> store(c.bus, addr, "Word", rs2_value)
              [] OTHER      -> [panic |-> TRUE, bus |-> c.bus]
    IN  stored(c, r)

\* faulty variant of handle_btype: BLT and BGE compare unsigned, as BLTU and
\* BGEU do
handle_btype_unsigned(c, instruction, next_pc) ==
    LET funct3 == field(instruction, 12, 3)
        rs1    == field(instruction, 15, 5)
        rs2    == field(instruction, 20, 5)
        imm    == b_imm(instruction)
        rs1_value == c.regs[rs1]
        rs2_value == c.regs[rs2]
        should_branch ==
            CASE funct3 = 0 -> rs1_value = rs2_value
              [] funct3 = 1 -> rs1_value # rs2_value
              [] funct3 = 4 -> lt_u32(rs1_value, rs2_value)
              [] funct3 = 5 -> ~lt_u32(rs1_value, rs2_value)
              [] funct3 = 6 -> lt_u32(rs1_value, rs2_value)
              [] funct3 = 7 -> ~lt_u32(rs1_value, rs2_value)
    IN  IF funct3 \in {2, 3}
        THEN [panic |-> TRUE, regs |-> c.regs, bus |-> c.bus, next_pc |-> next_pc]
        ELSE [panic |-> FALSE, regs |-> c.regs, bus |-> c.bus,
              next_pc |-> IF should_branch THEN wrapping_add(c.pc, imm)
                          ELSE next_pc]

\* faulty variant of handle_btype: a taken branch adds the offset to next_pc,
\* the address of the following instruction, instead of self.pc
handle_btype_from_next(c, instruction, next_pc) ==
    LET funct3 == field(instruction, 12, 3)
        rs1    == field(instruction, 15, 5)
        rs2    == field(instruction, 20, 5)
        imm    == b_imm(instruction)
        rs1_value == c.regs[rs1]
        rs2_value == c.regs[rs2]
        should_branch ==
            CASE funct3 = 0 -> rs1_value = rs2_value
              [] funct3 = 1 -> rs1_value # rs2_value
              [] funct3 = 4 -> lt_i32(rs1_value, rs2_value)
              [] funct3 = 5 -> ~lt_i32(rs1_value, rs2_value)
              [] funct3 = 6 -> lt_u32(rs1_value, rs2_value)
              [] funct3 = 7 -> ~lt_u32(rs1_value, rs2_value)
    IN  IF funct3 \in {2, 3}
        THEN [panic |-> TRUE, regs |-> c.regs, bus |-> c.bus, next_pc |-> next_pc]
        ELSE [panic |-> FALSE, regs |-> c.regs, bus |-> c.bus,
              next_pc |-> IF should_branch THEN wrapping_add(next_pc, imm)
                          ELSE next_pc]

\* faulty variant of handle_btype: the target is taken whatever the condition
handle_btype_always(c, instruction, next_pc) ==
    LET funct3 == field(instruction, 12, 3)
        imm    == b_imm(instruction)
    IN  IF funct3 \in {2, 3}
        THEN [panic |-> TRUE, regs |-> c.regs, bus |-> c.bus, next_pc |-> next_pc]
        ELSE [panic |-> FALSE, regs |-> c.regs, bus |-> c.bus,
              next_pc |-> wrapping_add(c.pc, imm)]

\* fn handle_btype
handle_btype(c, instruction, next_pc) ==
    LET funct3 == field(instruction, 12, 3)
        rs1    == field(instruction, 15, 5)
        rs2    == field(instruction, 20, 5)
        imm    == b_imm(instruction)
        rs1_value == c.regs[rs1]
        rs2_value == c.regs[rs2]
        should_branch ==
            CASE funct3 = 0 -> rs1_value = rs2_value
              [] funct3 = 1 -> rs1_value # rs2_value
              [] funct3 = 4 -> lt_i32(rs1_value, rs2_value)
              [] funct3 = 5 -> ~lt_i32(rs1_value, rs2_value)
              [] funct3 = 6 -> lt_u32(rs1_value, rs2_value)
              [] funct3 = 7 -> ~lt_u32(rs1_value, rs2_value)
    IN  IF funct3 \in {2, 3}
        THEN [panic |-> TRUE, regs |-> c.regs, bus |-> c.bus, next_pc |-> next_pc]
        ELSE [panic |-> FALSE, regs |-> c.regs, bus |-> c.bus,
              next_pc |-> IF should_branch THEN wrapping_add(c.pc, imm)
                          ELSE next_pc]

\* faulty variant of handle_jal: with rd = x0 nothing is done at all, the jump
\* included
handle_jal_skip_x0(c, instruction, next_pc) ==
    LET rd     == field(instruction, 7, 5)
        imm    == j_imm(instruction)
        rd_value == wrapping_add(c.pc, U(4))
    IN  IF overflow_checks /\ add_overflows_u32(c.pc, U(4))
        THEN [panic |-> TRUE, regs |-> c.regs, bus |-> c.bus, next_pc |-> next_pc]
        ELSE [panic |-> FALSE, regs |-> write_reg(c.regs, rd, rd_value),
              bus |-> c.bus,
              next_pc |-> IF rd = 0 THEN next_pc ELSE wrapping_add(c.pc, imm)]

\* fn handle_jal.  rd_value = self.pc + 4 is a plain u32 `+`.
handle_jal(c, instruction, next_pc) ==
    LET rd     == field(instruction, 7, 5)
        imm    == j_imm(instruction)
        rd_value == wrapping_add(c.pc, U(4))
    IN  IF overflow_checks /\ add_overflows_u32(c.pc, U(4))
        THEN [panic |-> TRUE, regs |-> c.regs, bus |-> c.bus, next_pc |-> next_pc]
        ELSE [panic |-> FALSE, regs |-> write_reg(c.regs, rd, rd_value),
              bus |-> c.bus, next_pc |-> wrapping_add(c.pc, imm)]

\* faulty variant of handle_jalr: the link register is written before the
\* funct3 match, so the panic comes after the write
handle_jalr_link_first(c, instruction, next_pc) ==
    LET rd     == field(instruction, 7, 5)
        funct3 == field(instruction, 12, 3)
        rs     == field(instruction, 15, 5)
        imm    == i_imm(instruction)
        rs_value == c.regs[rs]
        rd_value == wrapping_add(c.pc, U(4))
    IN  IF overflow_checks /\ add_overflows_u32(c.pc, U(4))
        THEN [panic |-> TRUE, regs |-> c.regs, bus |-> c.bus, next_pc |-> next_pc]
        ELSE [panic |-> funct3 # 0, regs |-> write_reg(c.regs, rd, rd_value),
              bus |-> c.bus, next_pc |-> wrapping_add(rs_value, imm)]

\* faulty variant of handle_jalr: rs1 is read after the link register is
\* written
handle_jalr_target_after_link(c, instruction, next_pc) ==
    LET rd     == field(instruction, 7, 5)
        funct3 == field(instruction, 12, 3)
        rs     == field(instruction, 15, 5)
        imm    == i_imm(instruction)
        rd_value == wrapping_add(c.pc, U(4))
        linked == write_reg(c.regs, rd, rd_value)
    IN  IF (overflow_checks /\ add_overflows_u32(c.pc, U(4))) \/ funct3 # 0
        THEN [panic |-> TRUE, regs |-> c.regs, bus |-> c.bus, next_pc |-> next_pc]
        ELSE [panic |-> FALSE, regs |-> linked,
              bus |-> c.bus, next_pc |-> wrapping_add(linked[rs], imm)]

\* faulty variant of handle_jalr: bit 0 of the target is cleared
handle_jalr_masked(c, instruction, next_pc) ==
    LET rd     == field(instruction, 7, 5)
        funct3 == field(instruction, 12, 3)
        rs     == field(instruction, 15, 5)
        imm    == i_imm(instruction)
        rs_value == c.regs[rs]
        rd_value == wrapping_add(c.pc, U(4))
    IN  IF (overflow_checks /\ add_overflows_u32(c.pc, U(4))) \/ funct3 # 0
        THEN [panic |-> TRUE, regs |-> c.regs, bus |-> c.bus, next_pc |-> next_pc]
        ELSE [panic |-> FALSE, regs |-> write_reg(c.regs, rd, rd_value),
              bus |-> c.bus,
              next_pc |-> and32(wrapping_add(rs_value, imm), W(65535, 65534))]

\* fn handle_jalr
handle_jalr(c, instruction, next_pc) ==
    LET rd     == field(instruction, 7, 5)
        funct3 == field(instruction, 12, 3)
        rs     == field(instruction, 15, 5)
        imm    == i_imm(instruction)
        rs_value == c.regs[rs]
        rd_value == wrapping_add(c.pc, U(4))
    IN  IF (overflow_checks /\ add_overflows_u32(c.pc, U(4))) \/ funct3 # 0
        THEN [panic |-> TRUE, regs |-> c.regs, bus |-> c.bus, next_pc |-> next_pc]
        ELSE [panic |-> FALSE, regs |-> write_reg(c.regs, rd, rd_value),
              bus |-> c.bus, next_pc |-> wrapping_add(rs_value, imm)]

\* faulty variant of handle_lui: the immediate is or-ed into the old value of
\* rd
handle_lui_or(c, instruction) ==
    LET rd  == field(instruction, 7, 5)
        imm == field(instruction, 12, 20)
        rd_value == or32(c.regs[rd], shl32(U(imm), 12))
    IN  Returned(c, write_reg(c.regs, rd, rd_value))

\* fn handle_lui
handle_lui(c, instruction) ==
    LET rd  == field(instruction, 7, 5)
        imm == field(instruction, 12, 20)
        rd_value == shl32(U(imm), 12)
    IN  Returned(c, write_reg(c.regs, rd, rd_value))

\* faulty variant of handle_auipc: the offset is added to the address of the
\* next instruction
handle_auipc_next_pc(c, instruction) ==
    LET rd  == field(instruction, 7, 5)
        imm == field(instruction, 12, 20)
        offset == shl32(U(imm), 12)
        rd_value == wrapping_add(wrapping_add(c.pc, U(4)), offset)
    IN  Returned(c, write_reg(c.regs, rd, rd_value))

\* fn handle_auipc
handle_auipc(c, instruction) ==
    LET rd  == field(instruction, 7, 5)
        imm == field(instruction, 12, 20)
        offset == shl32(U(imm), 12)
        rd_value == wrapping_add(c.pc, offset)
    IN  Returned(c, write_reg(c.regs, rd, rd_value))

\* a handler without &mut next_pc leaves next_pc as step() set it
with_next_pc(r, next_pc) ==
    [panic |-> r.panic, regs |-> r.regs, bus |-> r.bus, next_pc |-> next_pc]

\* the `_ => println!("don't have this yet")` arm of step(): nothing happens
unknown_opcode(c, next_pc) ==
    [panic |-> FALSE, regs |-> c.regs, bus |-> c.bus, next_pc |-> next_pc]

\* the match of fn step
dispatch(c, instruction, next_pc) ==
    LET opcode == field(instruction, 0, 7)
    IN  CASE opcode = 51  -> with_next_pc(handle_rtype(c, instruction), next_pc)
          [] opcode = 19  -> with_next_pc(handle_itype(c, instruction), next_pc)
          [] opcode = 3   -> with_next_pc(handle_load(c, instruction), next_pc)
          [] opcode = 35  -> with_next_pc(handle_store(c, instruction), next_pc)
          [] opcode = 99  -> handle_btype(c, instruction, next_pc)
          [] opcode = 111 -> handle_jal(c, instruction, next_pc)
          [] opcode = 103 -> handle_jalr(c, instruction, next_pc)
          [] opcode = 55  -> with_next_pc(handle_lui(c, instruction), next_pc)
          [] opcode = 23  -> with_next_pc(handle_auipc(c, instruction), next_pc)
          [] OTHER        -> unknown_opcode(c, next_pc)

NoInstr == <<>>

\* the end of fn step: self.pc = next_pc is the last statement, and a panic
\* in the handler leaves pc as it was
commit(c, instruction, r) ==
    [regs |-> r.regs, bus |-> r.bus,
     pc |-> IF r.panic THEN c.pc ELSE r.next_pc,
     outcome |-> IF r.panic THEN "panic" ELSE "ok",
     instr |-> instruction]

\* faulty variant of fetched: next_pc = self.pc + 2, as if the instruction
\* were two bytes long
fetched_short(c, f) ==
    IF f.panic
    THEN [regs |-> c.regs, pc |-> c.pc, bus |-> c.bus,
          outcome |-> "panic", instr |-> NoInstr]
    ELSE IF overflow_checks /\ add_overflows_u32(c.pc, U(2))
    THEN [regs |-> c.regs, pc |-> c.pc, bus |-> c.bus,
          outcome |-> "panic", instr |-> f.value]
    ELSE commit(c, f.value, dispatch(c, f.value, wrapping_add(c.pc, U(2))))

\* fn step after self.fetch(): let mut next_pc = self.pc + 4, then the match
fetched(c, f) ==
    IF f.panic
    THEN [regs |-> c.regs, pc |-> c.pc, bus |-> c.bus,
          outcome |-> "panic", instr |-> NoInstr]
    ELSE IF overflow_checks /\ add_overflows_u32(c.pc, U(4))
    THEN [regs |-> c.regs, pc |-> c.pc, bus |-> c.bus,
          outcome |-> "panic", instr |-> f.value]
    ELSE commit(c, f.value, dispatch(c, f.value, wrapping_add(c.pc, U(4))))

\* fn step: the cpu after the call, how the call ended, and the word fetched
step(c) == fetched(c, fetch(c))

---------------------------------------------------------------------------
(* Instruction encoders of the tests (tests/integration_tests.rs).  A       *)
(* register number or funct field is a natural; an immediate is a word.     *)

\* a small signed literal as an i32
I(n) == IF n >= 0 THEN U(n) ELSE not32(U(-n - 1))

encode_rtype(funct7, rs2, rs1, funct3, rd) ==
    or32(or32(or32(or32(or32(shl32(U(funct7), 25), shl32(U(rs2), 20)),
                        shl32(U(rs1), 15)), shl32(U(funct3), 12)),
              shl32(U(rd), 7)), U(51))

\* the shared body of encode_itype, encode_load and encode_jalr
encode_imm12(imm, rs1, funct3, rd, opcode) ==
    LET imm12 == and32(imm, U(4095))
    IN  or32(or32(or32(or32(shl32(imm12, 20), shl32(U(rs1), 15)),
                       shl32(U(funct3), 12)), shl32(U(rd), 7)), U(opcode))

encode_itype(imm, rs1, funct3, rd) == encode_imm12(imm, rs1, funct3, rd, 19)

encode_load(imm, rs1, funct3, rd) == encode_imm12(imm, rs1, funct3, rd, 3)

\* encode_jalr of the tests fixes funct3 = 0; the parameter lets the model
\* also build the words with another funct3
encode_jalr(imm, rs1, funct3, rd) == encode_imm12(imm, rs1, funct3, rd, 103)

encode_btype(imm, rs1, rs2, funct3) ==
    LET b12   == U(field(imm, 12, 1))
        b11   == U(field(imm, 11, 1))
        b10_5 == U(field(imm, 5, 6))
        b4_1  == U(field(imm, 1, 4))
    IN  or32(or32(or32(or32(or32(or32(or32(shl32(b12, 31), shl32(b10_5, 25)),
                                      shl32(U(rs2), 20)), shl32(U(rs1), 15)),
                            shl32(U(funct3), 12)), shl32(b4_1, 8)),
                  shl32(b11, 7)), U(99))

encode_stype(imm, rs2, rs1, funct3) ==
    LET imm11_5 == U(field(imm, 5, 7))
        imm4_0  == U(field(imm, 0, 5))
    IN  or32(or32(or32(or32(or32(shl32(imm11_5, 25), shl32(U(rs2), 20)),
                            shl32(U(rs1), 15)), shl32(U(funct3), 12)),
                  shl32(imm4_0, 7)), U(35))

encode_jal(imm, rd) ==
    LET i20    == U(field(imm, 20, 1))
        i19_12 == U(field(imm, 12, 8))
        i11    == U(field(imm, 11, 1))
        i10_1  == U(field(imm, 1, 10))
    IN  or32(or32(or32(or32(or32(shl32(i20, 31), shl32(i10_1, 21)),
                            shl32(i11, 20)), shl32(i19_12, 12)),
                  shl32(U(rd), 7)), U(111))

encode_lui(imm, rd) ==
    or32(or32(shl32(and32(U(imm), U(1048575)), 12), shl32(U(rd), 7)), U(55))

encode_auipc(imm, rd) ==
    or32(or32(shl32(and32(U(imm), U(1048575)), 12), shl32(U(rd), 7)), U(23))

---------------------------------------------------------------------------
(* Inputs: register values and instruction words the runs are made of      *)

\* 0, 1, 0x7FFFFFFF, 0x80000000, 0xFFFFFFFF, 0x12345678
TestValues ==
    {Zero, U(1), W(32767, 65535), W(32768, 0), W(65535, 65535), W(4660, 22136)}

\* the registers the harness presets (cpu.regs[r] = v in the tests)
TestRegs == {1, 2}

\* cpu.pc = 0x100 in the tests
TestPcs == {U(256)}

RTypeWords ==
    {encode_rtype(f7, t[3], t[2], f3, t[1]) :
        f7 \in {0, 32, 1}, f3 \in 0..7,
        t \in {<<1, 1, 2>>, <<0, 1, 2>>, <<1, 2, 1>>, <<1, 1, 1>>}}

\* 32 = imm[11:5] 0x01 (no shift-right variant), 1027 = imm[11:5] 0x20, shamt 3
ITypeTable ==
    {<<encode_itype(I(imm), t[2], f3, t[1]), imm>> :
        imm \in {1, -1, -2048, 32, 1027}, f3 \in 0..7,
        t \in {<<1, 1>>, <<0, 1>>, <<2, 1>>, <<1, 0>>}}

ITypeWords == {e[1] : e \in ITypeTable}

LoadWords ==
    {encode_load(I(imm), t[2], f3, t[1]) :
        imm \in {0, 2, 1021, 1023, 1024, -1}, f3 \in 0..7,
        t \in {<<1, 0>>, <<0, 0>>, <<2, 1>>}}

StoreWords ==
    {encode_stype(I(imm), t[1], t[2], f3) :
        imm \in {0, 8, 1021, 1022, 1023, 1024, -1}, f3 \in {0, 1, 2, 3, 7},
        t \in {<<1, 0>>, <<2, 1>>, <<0, 0>>}}

\* each branch word with the offset it was encoded from
BranchTable ==
    {<<encode_btype(I(imm), t[1], t[2], f3), imm>> :
        imm \in {8, -8, 2, -4096}, f3 \in 0..7,
        t \in {<<1, 2>>, <<2, 1>>, <<1, 1>>, <<0, 1>>}}

BranchWords == {e[1] : e \in BranchTable}

\* each JAL word with the offset it was encoded from
JalTable ==
    {<<encode_jal(I(imm), rd), imm>> :
        imm \in {0, 8, -8, 2, 1048574, -1048576}, rd \in {0, 1, 2}}

JalWords == {e[1] : e \in JalTable}

\* each JALR word with the immediate it was encoded from
JalrTable ==
    {<<encode_jalr(I(imm), t[2], f3, t[1]), imm>> :
        imm \in {0, 1, -1, 8, -2048}, f3 \in {0, 1, 7},
        t \in {<<1, 1>>, <<0, 1>>, <<2, 1>>, <<1, 0>>}}

JalrWords == {e[1] : e \in JalrTable}

\* 0x80000 = 524288, 0xFFFFF = 1048575, 0x12345 = 74565
UTypeImms == {0, 1, 524288, 1048575, 74565}

\* each LUI word with the 20-bit immediate it was encoded from
LuiTable == {<<encode_lui(imm, rd), imm>> : imm \in UTypeImms, rd \in {0, 1}}

\* each AUIPC word with the 20-bit immediate it was encoded from
AuipcTable == {<<encode_auipc(imm, rd), imm>> : imm \in UTypeImms, rd \in {0, 1}}

UTypeWords == {e[1] : e \in LuiTable} \cup {e[1] : e \in AuipcTable}

\* words whose opcode step() does not know: 0x00000000, 0xFFFFFFFF,
\* 0x0000000F (FENCE), 0x00000073 (ECALL), 0x002080BB (opcode 0x3B, rd = x1)
UnknownWords == {Zero, W(65535, 65535), U(15), U(115), W(32, 32955)}

\* the instruction of a single-instruction run
UnitInstrs ==
    RTypeWords \cup ITypeWords \cup LoadWords \cup StoreWords \cup BranchWords
    \cup JalWords \cup JalrWords \cup UTypeWords \cup UnknownWords

\* the instructions programs are made of
ProgInstrs ==
    { encode_itype(I(1), 0, 0, 1),         \* addi  x1, x0, 1
      encode_itype(I(5), 1, 0, 0),         \* addi  x0, x1, 5
      encode_rtype(0, 1, 1, 0, 0),         \* add   x0, x1, x1
      encode_load(I(0), 0, 2, 0),          \* lw    x0, 0(x0)
      encode_lui(1, 0),                    \* lui   x0, 1
      encode_auipc(1, 0),                  \* auipc x0, 1
      encode_jal(I(2), 0),                 \* jal   x0, +2
      encode_jal(I(-4), 1),                \* jal   x1, -4
      encode_jalr(I(0), 1, 0, 0),          \* jalr  x0, 0(x1)
      encode_btype(I(8), 0, 0, 0),         \* beq   x0, x0, +8
      Zero }                               \* opcode 0x00

---------------------------------------------------------------------------
(* The state machine                                                       *)

\* steps per run of a program
MaxSteps == 3

NoCall == <<>>

\* vec![0; 1024]
NewBus == [a \in 0..BusLen - 1 |-> 0]

\* fn new
Init ==
    /\ regs = [i \in 0..NumRegs - 1 |-> Zero]
    /\ pc = Zero
    /\ bus = NewBus
    /\ overflow_checks \in BOOLEAN
    /\ outcome = "new"
    /\ instr = NoInstr
    /\ pre = NoCall
    /\ steps = 0

cpu == [regs |-> regs, pc |-> pc, bus |-> bus]

\* the harness touches the cpu: what the last call did is no longer on view
Forget(o) == outcome' = o /\ instr' = NoInstr /\ pre' = NoCall

\* u32::to_le_bytes, byte k
le_byte(w, k) ==
    CASE k = 0 -> Lo(w) % 256
      [] k = 1 -> Lo(w) \div 256
      [] k = 2 -> Hi(w) % 256
      [] k = 3 -> Hi(w) \div 256

\* the loader: cpu.bus[addr..addr + 4].copy_from_slice(&inst.to_le_bytes()),
\* at the address the next step fetches from
Load(w) ==
    /\ outcome # "loaded"
    /\ Hi(pc) = 0 /\ Lo(pc) + 4 <= BusLen
    /\ bus' = [bus EXCEPT ![Lo(pc)]     = le_byte(w, 0),
                          ![Lo(pc) + 1] = le_byte(w, 1),
                          ![Lo(pc) + 2] = le_byte(w, 2),
                          ![Lo(pc) + 3] = le_byte(w, 3)]
    /\ Forget("loaded")
    /\ UNCHANGED <<regs, pc, overflow_checks, steps>>

\* one call of step()
Call ==
    \E r \in {step(cpu)} :
        /\ regs' = r.regs
        /\ pc' = r.pc
        /\ bus' = r.bus
        /\ outcome' = r.outcome
        /\ instr' = r.instr
        /\ pre' = cpu
        /\ steps' = steps + 1
        /\ UNCHANGED overflow_checks

\* a program run: the loader writes the next instruction, step() runs it
LoadProgram == \E w \in ProgInstrs : Load(w)

Step == steps < MaxSteps /\ Call

Next == LoadProgram \/ Step

Spec == Init /\ [][Next]_vars

\* a unit test: preset registers and pc, write one instruction, one step()
SetReg ==
    /\ outcome = "new"
    /\ \E r \in TestRegs, v \in TestValues : regs' = [regs EXCEPT ![r] = v]
    /\ Forget("new")
    /\ UNCHANGED <<pc, bus, overflow_checks, steps>>

SetPc ==
    /\ outcome = "new"
    /\ \E p \in TestPcs : pc' = p
    /\ Forget("new")
    /\ UNCHANGED <<regs, bus, overflow_checks, steps>>

LoadInstr == outcome = "new" /\ \E w \in UnitInstrs : Load(w)

UnitStep == steps = 0 /\ Call

NextUnit == SetReg \/ SetPc \/ LoadInstr \/ UnitStep

SpecUnit == Init /\ [][NextUnit]_vars

---------------------------------------------------------------------------
(* Whole programs: load_program writes the program at address 0, then      *)
(* step() is called a fixed number of times                                *)

\* the values of a 12-bit immediate
Imm12 == -2048..2047

\* the program of test_branch_taken_skips_instruction, v in place of its 5:
\* addi x1, x0, v; addi x2, x0, v; beq x1, x2, +8; addi x3, x0, 99;
\* addi x4, x0, 42
BranchSkipProgram(v) ==
    << encode_itype(v, 0, 0, 1),
       encode_itype(v, 0, 0, 2),
       encode_btype(I(8), 1, 2, 0),
       encode_itype(I(99), 0, 0, 3),
       encode_itype(I(42), 0, 0, 4) >>

\* the constants the LUI + ADDI idiom is run for: the two of the tests
\* (0x12345678, 0xDEADBEEF), 0, 0x7FF, 0x800, 0xFFFFF800, 0xFFFFFFFF,
\* 0x7FFFF7FF, 0x7FFFF800, 0x7FFFFFFF, 0x80000000
ConstValues ==
    { W(4660, 22136), W(57005, 48879), Zero, U(2047), U(2048),
      W(65535, 63488), W(65535, 65535),
      W(32767, 63487), W(32767, 63488), W(32767, 65535), W(32768, 0) }

\* upper of test_lui_addi_sign_compensation: ((C + 0x800) >> 12) & 0xFFFFF
const_upper(c) ==
    Hi(wrapping_add(c, U(2048))) * 16 + (Lo(wrapping_add(c, U(2048))) \div 4096)

\* lower of test_lui_addi_sign_compensation: the low 12 bits of C as a signed
\* 12-bit number
const_lower(c) ==
    IF Lo(c) % 4096 >= 2048 THEN (Lo(c) % 4096) - 4096 ELSE Lo(c) % 4096

\* the program of test_lui_addi_sign_compensation for the constant c:
\* lui x1, upper; addi x1, x1, lower
ConstProgram(c) ==
    << encode_lui(const_upper(c), 1),
       encode_itype(I(const_lower(c)), 1, 0, 1) >>

\* instruction words a program writes over its own next instruction:
\* addi x5, x0, 99; addi x4, x0, -1; 0 (no known opcode); beq x0, x0, 0
PatchWords ==
    { encode_itype(I(99), 0, 0, 5), encode_itype(I(-1), 0, 0, 4), Zero,
      encode_btype(I(0), 0, 0, 0) }

\* a program that stores the word w over the instruction after the store:
\* lui x1, upper(w); addi x1, x1, lower(w); sw x1, 12(x0); addi x5, x0, 7
PatchProgram(w) ==
    ConstProgram(w)
        \o << encode_stype(I(12), 1, 0, 2), encode_itype(I(7), 0, 0, 5) >>

Programs ==
    {BranchSkipProgram(I(v)) : v \in Imm12}
        \cup {ConstProgram(c) : c \in ConstValues}
        \cup {PatchProgram(w) : w \in PatchWords}

\* fn load_program of the tests: instruction i goes to bytes 4 * i .. 4 * i + 3
load_program(b, instructions) ==
    [a \in 0..BusLen - 1 |->
        IF a < 4 * Len(instructions)
        THEN le_byte(instructions[(a \div 4) + 1], a % 4)
        ELSE b[a]]

LoadTestProgram ==
    /\ outcome = "new"
    /\ \E p \in Programs : bus' = load_program(bus, p)
    /\ Forget("loaded")
    /\ UNCHANGED <<regs, pc, overflow_checks, steps>>

\* step() calls per program run
RunSteps == 4

Run == outcome # "new" /\ steps < RunSteps /\ Call

NextProgram == LoadTestProgram \/ Run

SpecProgram == Init /\ [][NextProgram]_vars

---------------------------------------------------------------------------
(* Long runs: a looping program, or none at all, and step() called until   *)
(* it panics                                                                *)

\* the start values of the countdown
LoopCounts == (1..40) \cup {255, 1024, 2047}

\* the program of test_countdown_loop, n in place of its 5:
\* addi x1, x0, n; addi x2, x0, 0; addi x1, x1, -1; addi x3, x3, 1;
\* bne x1, x2, -8
CountdownProgram(n) ==
    << encode_itype(I(n), 0, 0, 1),
       encode_itype(I(0), 0, 0, 2),
       encode_itype(I(-1), 1, 0, 1),
       encode_itype(I(1), 3, 0, 3),
       encode_btype(I(-8), 1, 2, 1) >>

\* beq x0, x0, 0: a branch to itself
SpinInstr == encode_btype(I(0), 0, 0, 0)

\* a branch to itself at address 0, and one at address 8 behind two addi
SpinPrograms ==
    { << SpinInstr >>,
      << encode_itype(I(5), 0, 0, 1), encode_itype(I(-7), 0, 0, 2), SpinInstr >> }

LoopPrograms == {CountdownProgram(n) : n \in LoopCounts} \cup SpinPrograms

LoadLoopProgram ==
    /\ outcome = "new"
    /\ \E p \in LoopPrograms : bus' = load_program(bus, p)
    /\ Forget("loaded")
    /\ UNCHANGED <<regs, pc, overflow_checks, steps>>

\* step() calls per long run
LoopSteps == 6143

\* the run goes on until a call of step() panics
RunLoop == outcome # "panic" /\ steps < LoopSteps /\ Call

NextLoop == LoadLoopProgram \/ RunLoop

SpecLoop == Init /\ [][NextLoop]_vars

---------------------------------------------------------------------------
(* Handler tests: registers or pc are preset and a handler is called with  *)
(* the instruction word, with no fetch and no pc update                    *)

\* base addresses put in x1: 0, 1, 0x200, 1020, 0xFFFFFFFF
BaseValues == {Zero, U(1), U(512), U(1020), W(65535, 65535)}

\* values put in x2: 0x44332211, 0xDEADBEEF, 0x000080FF, 0x00007F80,
\* 0xFFFFFFFF
StoreValues ==
    {W(17459, 8721), W(57005, 48879), W(0, 33023), W(0, 32640), W(65535, 65535)}

\* cpu.pc = 0x100, 0x1000, 0xFFFF_F000 in the tests
HandlerPcs == {U(256), U(4096), W(65535, 61440)}

HandlerOffsets == {0, 1, 3, -1}

\* sb / sh / sw x2, imm(x1)
HandlerStoreWords ==
    {encode_stype(I(imm), 2, 1, f3) : imm \in HandlerOffsets, f3 \in {0, 1, 2}}

\* lb / lh / lw / lbu / lhu rd, imm(x1)
HandlerLoadWords ==
    {encode_load(I(imm), 1, f3, rd) :
        imm \in HandlerOffsets, f3 \in {0, 1, 2, 4, 5}, rd \in {0, 1, 3}}

\* cpu.regs[1] = base; the tests that preset registers leave pc at 0
SetBase ==
    /\ outcome = "new" /\ pc = Zero
    /\ \E v \in BaseValues : regs' = [regs EXCEPT ![1] = v]
    /\ Forget("new")
    /\ UNCHANGED <<pc, bus, overflow_checks, steps>>

\* cpu.regs[2] = value
SetValue ==
    /\ outcome = "new" /\ pc = Zero
    /\ \E v \in StoreValues : regs' = [regs EXCEPT ![2] = v]
    /\ Forget("new")
    /\ UNCHANGED <<pc, bus, overflow_checks, steps>>

\* cpu.pc = p, in a test that presets x1 at most
SetHandlerPc ==
    /\ outcome = "new" /\ regs[2] = Zero
    /\ \E p \in HandlerPcs : pc' = p
    /\ Forget("new")
    /\ UNCHANGED <<regs, bus, overflow_checks, steps>>

\* cpu.handle_xxx(w) returned or panicked with r
CallHandler(w, r) ==
    /\ regs' = r.regs
    /\ bus' = r.bus
    /\ outcome' = IF r.panic THEN "panic" ELSE "ok"
    /\ instr' = w
    /\ pre' = cpu
    /\ steps' = steps + 1
    /\ UNCHANGED <<pc, overflow_checks>>

\* cpu.handle_store(w), the first call of a test
HandleStore ==
    /\ outcome = "new"
    /\ \E w \in HandlerStoreWords : \E r \in {handle_store(cpu, w)} : CallHandler(w, r)

\* cpu.handle_load(w), the first call of a test or the call after a store
HandleLoad ==
    /\ outcome = "new" \/ (outcome = "ok" /\ field(instr, 0, 7) = 35)
    /\ \E w \in HandlerLoadWords : \E r \in {handle_load(cpu, w)} : CallHandler(w, r)

\* cpu.handle_auipc(w)
HandleAuipc ==
    /\ outcome = "new"
    /\ \E e \in AuipcTable : \E r \in {handle_auipc(cpu, e[1])} : CallHandler(e[1], r)

\* xori / ori rd, rs, -1
NotWords ==
    {encode_itype(I(-1), t[2], f3, t[1]) :
        f3 \in {4, 6}, t \in {<<1, 1>>, <<2, 2>>, <<3, 2>>, <<2, 3>>, <<0, 1>>}}

\* cpu.handle_itype(w), the first call of a test or the call after another
\* handle_itype
HandleIType ==
    /\ outcome = "new" \/ (outcome = "ok" /\ field(instr, 0, 7) = 19 /\ steps < 2)
    /\ \E w \in NotWords : \E r \in {handle_itype(cpu, w)} : CallHandler(w, r)

NextHandlers ==
    \/ SetBase \/ SetValue \/ SetHandlerPc
    \/ HandleStore \/ HandleLoad \/ HandleAuipc \/ HandleIType

SpecHandlers == Init /\ [][NextHandlers]_vars

---------------------------------------------------------------------------
(* Encoding tests: one handler call per test, over every value of an       *)
(* instruction field                                                       *)

\* x1: 1024, 2048, 0xFFFFFC00 (-1024), 0x80000001, 0x12345678
Rs1Values == {U(1024), U(2048), W(65535, 64512), W(32768, 1), W(4660, 22136)}

\* x2: 32, 0xAB, 0xFFFFFFFF
Rs2Values == {U(32), U(171), W(65535, 65535)}

\* the offsets a branch can encode: the even values of 13 signed bits
BImms == {2 * k : k \in -2048..2047}

\* offsets of jumps: the even values near 0, each single bit, both ends of
\* the range, 0xAAAAA and 0x55554
JImms ==
    {2 * k : k \in -128..127}
    \cup {512, 1024, 2048, 4096, 8192, 16384, 32768, 65536, 131072, 262144,
          524288, 1048574, 699050, 349524}
    \cup {-512, -1024, -2048, -4096, -8192, -16384, -32768, -65536, -131072,
          -262144, -524288, -1048576, -699050}

SetRs1 ==
    /\ outcome = "new" /\ pc = Zero
    /\ \E v \in Rs1Values : regs' = [regs EXCEPT ![1] = v]
    /\ Forget("new")
    /\ UNCHANGED <<pc, bus, overflow_checks, steps>>

SetRs2 ==
    /\ outcome = "new" /\ pc = Zero
    /\ \E v \in Rs2Values : regs' = [regs EXCEPT ![2] = v]
    /\ Forget("new")
    /\ UNCHANGED <<pc, bus, overflow_checks, steps>>

\* cpu.pc = 0x100, in a test that presets no register
SetCallPc ==
    /\ outcome = "new" /\ regs[1] = Zero /\ regs[2] = Zero
    /\ \E p \in TestPcs : pc' = p
    /\ Forget("new")
    /\ UNCHANGED <<regs, bus, overflow_checks, steps>>

\* let mut next_pc = cpu.pc + 4; cpu.handle_xxx(w, &mut next_pc);
\* cpu.pc = next_pc
CallPcHandler(w, r) ==
    /\ regs' = r.regs
    /\ bus' = r.bus
    /\ pc' = IF r.panic THEN pc ELSE r.next_pc
    /\ outcome' = IF r.panic THEN "panic" ELSE "ok"
    /\ instr' = w
    /\ pre' = cpu
    /\ steps' = steps + 1
    /\ UNCHANGED overflow_checks

\* a branch whose condition holds, between registers that hold 0: beq x0, x0;
\* bgeu x31, x31; bge x1, x2
CallBranch ==
    /\ outcome = "new" /\ regs[1] = Zero /\ regs[2] = Zero
    /\ \E v \in BImms, t \in {<<0, 0, 0>>, <<31, 31, 7>>, <<1, 2, 5>>} :
          \E w \in {encode_btype(I(v), t[1], t[2], t[3])} :
             \E r \in {handle_btype(cpu, w, wrapping_add(pc, U(4)))} :
                CallPcHandler(w, r)

CallJal ==
    /\ outcome = "new" /\ regs[1] = Zero /\ regs[2] = Zero
    /\ \E v \in JImms, rd \in {0, 1} :
          \E w \in {encode_jal(I(v), rd)} :
             \E r \in {handle_jal(cpu, w, wrapping_add(pc, U(4)))} :
                CallPcHandler(w, r)

\* sb x2, v(x1) with x2 = 0xAB
CallStore ==
    /\ outcome = "new" /\ regs[2] = U(171)
    /\ \E v \in Imm12 :
          \E w \in {encode_stype(I(v), 2, 1, 0)} :
             \E r \in {handle_store(cpu, w)} : CallHandler(w, r)

\* an R-type word op x3, x1, x2 with any funct7 and funct3
CallRType ==
    /\ outcome = "new"
    /\ \E f7 \in 0..127, f3 \in 0..7 :
          \E w \in {encode_rtype(f7, 2, 1, f3, 3)} :
             \E r \in {handle_rtype(cpu, w)} : CallHandler(w, r)

\* slli / srli / srai x3, x1, shamt with any imm[11:5]
CallShiftImm ==
    /\ outcome = "new" /\ regs[2] = Zero
    /\ \E f7 \in 0..127, shamt \in {0, 1, 3, 31}, f3 \in {1, 5} :
          \E w \in {encode_itype(U(f7 * 32 + shamt), 1, f3, 3)} :
             \E r \in {handle_itype(cpu, w)} : CallHandler(w, r)

NextFields ==
    \/ SetRs1 \/ SetRs2 \/ SetCallPc
    \/ CallBranch \/ CallJal \/ CallStore \/ CallRType \/ CallShiftImm

SpecFields == Init /\ [][NextFields]_vars

---------------------------------------------------------------------------
(* What the last call did, read off the history variables                  *)

\* a call of step() has ended and nothing touched the cpu since
Called == outcome \in {"ok", "panic"}

\* the call got past fetch(): instr is the word it decoded
Executed == Called /\ instr # NoInstr

Opcode == field(instr, 0, 7)

Rd == field(instr, 7, 5)

Funct3 == field(instr, 12, 3)

Rs1 == field(instr, 15, 5)

Rs2 == field(instr, 20, 5)

Funct7 == field(instr, 25, 7)

\* registers, memory and pc are what they were before the call
Unchanged == regs = pre.regs /\ pc = pre.pc /\ bus = pre.bus

\* the bytes [addr, addr + size) lie inside [0, 1024)
InRange(addr, size) == Hi(addr) = 0 /\ Lo(addr) + size <= BusLen

\* bytes moved by a load or store with this funct3
AccessSize == CASE Funct3 \in {0, 4} -> 1 [] Funct3 \in {1, 5} -> 2 [] Funct3 = 2 -> 4

LoadAddr == wrapping_add(pre.regs[Rs1], i_imm(instr))

StoreAddr == wrapping_add(pre.regs[Rs1], s_imm(instr))

---------------------------------------------------------------------------
(* Properties                                                              *)

(* C1: from the initial state, after any sequence of step() calls over any
   memory image register 0 holds 0, whatever instruction named it as rd;
   and an instruction reading x0 reads 0: ADDI rd, x0, imm leaves rd = imm. *)
C1_X0AlwaysZero ==
    /\ regs[0] = Zero
    /\ (outcome = "ok" /\ Opcode = 19 /\ Funct3 = 0 /\ Rs1 = 0 /\ Rd # 0)
          => regs[Rd] = i_imm(instr)

\* a second step ran ADD x0, x1, x1 with x1 # 0: the sum was discarded
C1_Witness ==
    /\ outcome = "ok" /\ steps >= 2
    /\ Opcode = 51 /\ Rd = 0 /\ Rs1 = 1 /\ Rs2 = 1
    /\ pre.regs[1] # Zero
    /\ regs[0] = Zero

(* C2: a fetched word whose opcode is none of 0x33, 0x13, 0x03, 0x23, 0x63,
   0x6F, 0x67, 0x37, 0x17 makes the step fail, with registers, memory and
   pc left as they were (not a silent no-op that advances pc). *)
C2_UnknownOpcodeFails ==
    (Executed /\ Opcode \notin {51, 19, 3, 35, 99, 111, 103, 55, 23})
        => (outcome = "panic" /\ Unchanged)

\* a known opcode with a selector the handler does not define
UndefinedSelector ==
    \/ Opcode = 51 /\ Funct3 \in {0, 5} /\ Funct7 \notin {0, 32}
    \/ Opcode = 19 /\ Funct3 = 5 /\ Funct7 \notin {0, 32}
    \/ Opcode = 3 /\ Funct3 \in {3, 6, 7}
    \/ Opcode = 35 /\ Funct3 > 2
    \/ Opcode = 99 /\ Funct3 \in {2, 3}
    \/ Opcode = 103 /\ Funct3 # 0

(* C3: a known opcode with an undefined selector (R-type funct3 0 or 5 with
   funct7 not 0x00/0x20; I-type funct3 5 with imm[11:5] not 0x00/0x20; load
   funct3 3, 6, 7; store funct3 > 2; branch funct3 2, 3; JALR funct3 # 0)
   ends the step in a failure, with registers, memory and pc as before. *)
C3_UndefinedSelectorFails ==
    (Executed /\ UndefinedSelector) => (outcome = "panic" /\ Unchanged)

\* JALR with funct3 # 0 and a link register other than x0, at pc = 0x100
C3_Witness ==
    /\ outcome = "panic" /\ instr # NoInstr
    /\ Opcode = 103 /\ Funct3 # 0 /\ Rd # 0
    /\ pre.pc = U(256)
    /\ Unchanged

(* C4: a half-word or word store whose bytes [addr, addr + size) are not all
   inside [0, 1024) fails and leaves every memory byte as it was, the
   in-bounds bytes from addr on included. *)
C4_StoreAllOrNothing ==
    (Executed /\ Opcode = 35 /\ Funct3 \in {1, 2} /\ ~InRange(StoreAddr, AccessSize))
        => (outcome = "panic" /\ bus = pre.bus)

(* C5: a load (LB, LH, LW, LBU, LHU) whose bytes [addr, addr + size) fall
   outside [0, 1024) fails without committing anything: rd is not written,
   and registers, memory and pc are unchanged. *)
C5_LoadOutOfBoundsFails ==
    (Executed /\ Opcode = 3 /\ Funct3 \in {0, 1, 2, 4, 5}
       /\ ~InRange(LoadAddr, AccessSize))
        => (outcome = "panic" /\ Unchanged)

\* LH at address 1023 into a register that held a non-zero value: the first
\* byte is inside the memory, the second is not
C5_Witness ==
    /\ outcome = "panic" /\ instr # NoInstr
    /\ Opcode = 3 /\ Funct3 = 1 /\ Rd # 0
    /\ LoadAddr = U(1023)
    /\ pre.regs[Rd] # Zero
    /\ Unchanged

\* a word read as i32
SInt(w) ==
    IF Hi(w) >= 32768 THEN (Hi(w) - Half) * Half + Lo(w) ELSE Hi(w) * Half + Lo(w)

\* a word read as u32, less 2^31: the order of these is the unsigned order
UOrd(w) == (Hi(w) - 32768) * Half + Lo(w)

\* the condition of the branch the last call ran, on the registers it read
BranchHolds ==
    LET a == pre.regs[Rs1]
        b == pre.regs[Rs2]
    IN  CASE Funct3 = 0 -> a = b
          [] Funct3 = 1 -> a # b
          [] Funct3 = 4 -> SInt(a) < SInt(b)
          [] Funct3 = 5 -> SInt(a) >= SInt(b)
          [] Funct3 = 6 -> UOrd(a) < UOrd(b)
          [] Funct3 = 7 -> UOrd(a) >= UOrd(b)
          [] OTHER -> FALSE

\* the call ran a branch or JAL whose offset, or a JALR whose target
\* rs1 + imm, is not a multiple of 4
MisalignedTarget ==
    /\ Executed
    /\ \/ Opcode = 99 /\ Lo(b_imm(instr)) % 4 # 0
       \/ Opcode = 111 /\ Lo(j_imm(instr)) % 4 # 0
       \/ Opcode = 103 /\ Lo(wrapping_add(pre.regs[Rs1], i_imm(instr))) % 4 # 0

(* C6 as stated: in every state reachable from the initial state (pc = 0) by
   step() calls, over any memory image and any instructions, pc is a
   multiple of 4.  (A failed step leaves pc as it was, so the states reached
   by successful steps alone have the same pc values.) *)
C6_PcMultipleOf4 == Lo(pc) % 4 = 0

(* C6 amended: a step from a pc that is a multiple of 4 leaves pc a multiple
   of 4 unless it runs a branch or JAL whose immediate is not a multiple of 4
   or a JALR whose target rs1 + imm is not a multiple of 4. *)
C6_AlignedUnlessMisalignedTarget ==
    (Called /\ Lo(pre.pc) % 4 = 0 /\ ~MisalignedTarget) => Lo(pc) % 4 = 0

\* a later step ran JAL x1, -4 from an aligned pc and landed on an aligned pc
C6_Witness ==
    /\ outcome = "ok" /\ steps >= 2
    /\ Opcode = 111 /\ Rd = 1
    /\ Lo(pre.pc) % 4 = 0
    /\ pc = wrapping_add(pre.pc, I(-4))
    /\ Lo(pc) % 4 = 0

(* C7: ADDI computes (rs1 + sign_extend(imm12)) mod 2^32 for every rs1 value
   and every 12-bit immediate and never fails on overflow, the signed-overflow
   inputs 0x7FFFFFFF + 1 and 0x80000000 + (-1) included. *)
C7_AddiWrapsNeverFails ==
    (Executed /\ Opcode = 19 /\ Funct3 = 0)
        => /\ outcome = "ok"
           /\ Rd # 0 => regs[Rd] = wrapping_add(pre.regs[Rs1], i_imm(instr))

(* C8: R-type ADD (funct7 0x00) writes (rs1 + rs2) mod 2^32 and SUB (funct7
   0x20) writes (rs1 - rs2) mod 2^32 for all register values, also when rd,
   rs1 and rs2 are the same register; 0xFFFFFFFF + 1 = 0 and
   0 - 1 = 0xFFFFFFFF.  The sum is checked by subtracting rs2 back, the
   difference by adding rs2 back. *)
C8_AddSubWrap ==
    (Executed /\ Opcode = 51 /\ Funct3 = 0 /\ Funct7 \in {0, 32})
        => LET a == pre.regs[Rs1]
               b == pre.regs[Rs2]
           IN  /\ outcome = "ok"
               /\ bus = pre.bus
               /\ (Rd # 0 /\ Funct7 = 0) => wrapping_sub(regs[Rd], b) = a
               /\ (Rd # 0 /\ Funct7 = 32) => wrapping_add(regs[Rd], b) = a
               /\ (Rd # 0 /\ Funct7 = 0 /\ a = W(65535, 65535) /\ b = U(1))
                     => regs[Rd] = Zero
               /\ (Rd # 0 /\ Funct7 = 32 /\ a = Zero /\ b = U(1))
                     => regs[Rd] = W(65535, 65535)

\* ADD x1, x1, x1 with x1 = 0x80000000: the sum wraps to 0
C8_Witness ==
    /\ outcome = "ok"
    /\ Opcode = 51 /\ Funct3 = 0 /\ Funct7 = 0
    /\ Rd = 1 /\ Rs1 = 1 /\ Rs2 = 1
    /\ pre.regs[1] = W(32768, 0)
    /\ regs[1] = Zero

(* C9: a successful step sets pc to exactly old pc + 4 for an R-type, I-type
   ALU, load, store, LUI or AUIPC instruction and for a branch whose
   condition is false; only a taken branch, JAL or JALR sets pc to any
   other value. *)
C9_PcPlus4UnlessTransfer ==
    outcome = "ok"
        => \/ pc = wrapping_add(pre.pc, U(4))
           \/ Opcode \in {111, 103}
           \/ Opcode = 99 /\ BranchHolds

\* a branch at pc = 0x100 whose condition is false falls through to 0x104
C9_Witness ==
    /\ outcome = "ok"
    /\ Opcode = 99 /\ ~BranchHolds
    /\ pre.pc = U(256)
    /\ pc = U(260)
    /\ b_imm(instr) # U(4)

(* C10: for each branch funct3 (0 BEQ, 1 BNE, 4 BLT signed <, 5 BGE signed
   >=, 6 BLTU unsigned <, 7 BGEU unsigned >=) and all rs1/rs2 values, the
   next pc is (pc + sign-extended B-immediate) mod 2^32, for negative as
   well as positive offsets, exactly when the condition holds, and pc + 4
   otherwise.  The immediate is the one the word was encoded from. *)
C10_BranchTarget ==
    (Executed /\ Opcode = 99 /\ Funct3 \in {0, 1, 4, 5, 6, 7})
        => /\ outcome = "ok"
           /\ \E e \in BranchTable : e[1] = instr
           /\ \A e \in BranchTable :
                 e[1] = instr =>
                    pc = IF BranchHolds THEN wrapping_add(pre.pc, I(e[2]))
                         ELSE wrapping_add(pre.pc, U(4))

\* BLT with rs1 = 0xFFFFFFFF (-1) and rs2 = 1, offset -8, at pc = 0x100:
\* taken, to 0xF8 (as unsigned values the condition would be false)
C10_Witness ==
    /\ outcome = "ok"
    /\ Opcode = 99 /\ Funct3 = 4
    /\ pre.regs[Rs1] = W(65535, 65535) /\ pre.regs[Rs2] = U(1)
    /\ pre.pc = U(256)
    /\ pc = U(248)

\* the 32-bit word memory holds at addr, least significant byte first
WordAt(addr) ==
    W(bus[addr + 3] * 256 + bus[addr + 2], bus[addr + 1] * 256 + bus[addr])

\* memory holds the instructions of p from address 0 on
ProgramInMemory(p) == \A i \in 1..Len(p) : WordAt(4 * (i - 1)) = p[i]

\* memory holds BranchSkipProgram(v) for the v its first instruction carries
BranchSkipLoaded == ProgramInMemory(BranchSkipProgram(i_imm(WordAt(0))))

(* C11: the program [ADDI x1,x0,v; ADDI x2,x0,v; BEQ x1,x2,+8;
   ADDI x3,x0,99; ADDI x4,x0,42], run from PC 0, has x3 = 0 after each of
   its first 4 steps (the ADDI at 0x0C is skipped by the taken branch), and
   after exactly 4 steps x1 = x2 = v, x4 = 42 and PC = 0x14, for every
   12-bit v. *)
C11_TakenBranchSkips ==
    (BranchSkipLoaded /\ steps \in 1..4)
        => /\ outcome = "ok"
           /\ regs[3] = Zero
           /\ steps = 4 => /\ regs[1] = i_imm(WordAt(0))
                           /\ regs[2] = i_imm(WordAt(0))
                           /\ regs[4] = U(42)
                           /\ pc = U(20)

\* the run with v = -2048 after its fourth step
C11_Witness ==
    /\ BranchSkipLoaded /\ steps = 4
    /\ regs[1] = I(-2048)
    /\ regs[3] = Zero /\ regs[4] = U(42)
    /\ pc = U(20)

\* byte k (0 the least significant) of a word
ByteOf(v, k) ==
    CASE k = 0 -> Lo(v) % 256
      [] k = 1 -> (Lo(v) \div 256) % 256
      [] k = 2 -> Hi(v) % 256
      [] k = 3 -> (Hi(v) \div 256) % 256

\* the low size bytes of a word, the rest 0
LowBytes(v, size) ==
    CASE size = 1 -> W(0, Lo(v) % 256)
      [] size = 2 -> W(0, Lo(v))
      [] size = 4 -> v

\* the last call was a successful SB, SH or SW
Stored == outcome = "ok" /\ instr # NoInstr /\ Opcode = 35

\* the last call was a load into a register other than x0
LoadedReg == Called /\ instr # NoInstr /\ Opcode = 3 /\ Rd # 0

\* the funct3 of the load that reads back, unsigned, what the store with
\* funct3 f3 wrote: SB -> LBU, SH -> LHU, SW -> LW
ReadBack(f3) == CASE f3 = 0 -> 4 [] f3 = 1 -> 5 [] f3 = 2 -> 2 [] OTHER -> 8

(* C12: after a successful SW / SH / SB of v at address a, memory bytes
   a .. a+size-1 hold the low bytes of v least significant first, and an LW /
   LHU / LBU at a that follows it succeeds, leaves memory alone and puts v /
   the low 16 bits of v / the low 8 bits of v in rd. *)
C12_StoreLoadRoundTrip ==
    [][ (Stored /\ LoadedReg' /\ Funct3' = ReadBack(Funct3) /\ LoadAddr' = StoreAddr)
            => /\ \A k \in 0..AccessSize - 1 :
                     bus[Lo(StoreAddr) + k] = ByteOf(pre.regs[Rs2], k)
               /\ outcome' = "ok"
               /\ bus' = bus
               /\ regs'[Rd'] = LowBytes(pre.regs[Rs2], AccessSize) ]_vars

\* SW of 0x44332211 at 0x200, then LW x3 from 0x200
C12_Witness ==
    /\ outcome = "ok" /\ instr # NoInstr /\ steps = 2
    /\ Opcode = 3 /\ Funct3 = 2 /\ Rd = 3
    /\ LoadAddr = U(512)
    /\ regs[3] = W(17459, 8721)
    /\ bus[512] = 17 /\ bus[513] = 34 /\ bus[514] = 51 /\ bus[515] = 68

(* C13: a successful SB, SH or SW at effective address a leaves memory
   bytes a .. a+size-1 (size 1, 2, 4) holding the low 8, 16 or 32 bits of
   rs2, least significant byte first, and every other memory byte, and every
   register, as it was before the step. *)
C13_StoreFrame ==
    (Stored /\ Funct3 \in {0, 1, 2})
        => /\ InRange(StoreAddr, AccessSize)
           /\ \A x \in 0..BusLen - 1 :
                 bus[x] = IF x - Lo(StoreAddr) \in 0..AccessSize - 1
                          THEN ByteOf(pre.regs[Rs2], x - Lo(StoreAddr))
                          ELSE pre.bus[x]
           /\ regs = pre.regs

\* SB x1, 0(x0) with x1 = 0x12345678 at pc 0 writes 0x78 over the first byte
\* of the instruction itself (0x00100023) and leaves its other bytes
C13_Witness ==
    /\ Stored /\ Funct3 = 0
    /\ StoreAddr = Zero
    /\ pre.regs[Rs2] = W(4660, 22136)
    /\ pre.bus[0] = 35 /\ bus[0] = 120
    /\ bus[1] = 0 /\ bus[2] = 16 /\ bus[3] = 0

\* the halfword memory held at addr before the call, least significant byte
\* first
HalfBefore(addr) == pre.bus[addr + 1] * 256 + pre.bus[addr]

(* C14: a successful load into rd # 0 from address a writes: LB the byte at
   a with bit 7 copied into bits 8..31; LH the halfword at a with bit 15
   copied into bits 16..31; LBU the byte and LHU the halfword with all higher
   bits 0; LW the four bytes at a as they are; whatever the bytes in
   memory. *)
C14_LoadExtension ==
    (LoadedReg /\ outcome = "ok")
        => LET a == Lo(LoadAddr)
           IN  /\ Funct3 = 0 =>
                     regs[Rd] = IF pre.bus[a] >= 128
                                THEN W(65535, 65280 + pre.bus[a])
                                ELSE W(0, pre.bus[a])
               /\ Funct3 = 1 =>
                     regs[Rd] = IF HalfBefore(a) >= 32768
                                THEN W(65535, HalfBefore(a))
                                ELSE W(0, HalfBefore(a))
               /\ Funct3 = 4 => regs[Rd] = W(0, pre.bus[a])
               /\ Funct3 = 5 => regs[Rd] = W(0, HalfBefore(a))
               /\ Funct3 = 2 => regs[Rd] = W(HalfBefore(a + 2), HalfBefore(a))
               /\ Funct3 \in {0, 1, 2, 4, 5}

\* LH x3 of the halfword 0xBEEF stored at 0x200 gives 0xFFFFBEEF
C14_Witness ==
    /\ LoadedReg /\ outcome = "ok"
    /\ Funct3 = 1 /\ Rd = 3
    /\ LoadAddr = U(512)
    /\ pre.bus[512] = 239 /\ pre.bus[513] = 190
    /\ regs[3] = W(65535, 48879)

\* LBU x3 of the byte 0xEF stored at 0x200 gives 0x000000EF
C14_WitnessUnsigned ==
    /\ LoadedReg /\ outcome = "ok"
    /\ Funct3 = 4 /\ Rd = 3
    /\ pre.bus[Lo(LoadAddr)] = 239
    /\ regs[3] = W(0, 239)

\* a sign-extended immediate read as u32, less 2^31 (as UOrd)
UOrdImm(imm) ==
    IF imm < 0 THEN 2147483647 + imm + 1 ELSE imm - 2147483647 - 1

(* C15: SLT (R-type funct3 2) and SLTI (I-type funct3 2) write 1 to rd # 0
   exactly when rs1 is less than rs2 / the sign-extended immediate as signed
   32-bit values, SLTU and SLTIU (funct3 3) exactly when it is less as
   unsigned 32-bit values, the immediate being sign-extended first; else they
   write 0.  With rs1 = 0xFFFFFFFF and rs2 = 1, SLT gives 1 and SLTU 0.  The
   immediate is the one the word was encoded from. *)
C15_SetLessThan ==
    /\ (Executed /\ Opcode = 51 /\ Funct3 \in {2, 3} /\ Funct7 = 0)
          => LET a == pre.regs[Rs1]
                 b == pre.regs[Rs2]
             IN  /\ outcome = "ok"
                 /\ Rd # 0 =>
                       regs[Rd] = IF (IF Funct3 = 2 THEN SInt(a) < SInt(b)
                                      ELSE UOrd(a) < UOrd(b))
                                  THEN U(1) ELSE Zero
                 /\ (Rd # 0 /\ a = W(65535, 65535) /\ b = U(1))
                       => regs[Rd] = (IF Funct3 = 2 THEN U(1) ELSE Zero)
    /\ (Executed /\ Opcode = 19 /\ Funct3 \in {2, 3})
          => /\ outcome = "ok"
             /\ \E e \in ITypeTable : e[1] = instr
             /\ \A e \in ITypeTable :
                   (e[1] = instr /\ Rd # 0) =>
                      regs[Rd] = IF (IF Funct3 = 2
                                     THEN SInt(pre.regs[Rs1]) < e[2]
                                     ELSE UOrd(pre.regs[Rs1]) < UOrdImm(e[2]))
                                 THEN U(1) ELSE Zero

\* SLT x1, x1, x2 with x1 = 0xFFFFFFFF and x2 = 1 writes 1
C15_Witness ==
    /\ outcome = "ok" /\ Opcode = 51 /\ Funct3 = 2 /\ Funct7 = 0
    /\ Rd = 1
    /\ pre.regs[Rs1] = W(65535, 65535) /\ pre.regs[Rs2] = U(1)
    /\ regs[1] = U(1)

\* SLTIU x1, x1, -1 with x1 = 0x12345678 writes 1: the immediate counts as
\* 0xFFFFFFFF
C15_WitnessImmediate ==
    /\ outcome = "ok" /\ Opcode = 19 /\ Funct3 = 3
    /\ Rd = 1
    /\ pre.regs[Rs1] = W(4660, 22136) /\ i_imm(instr) = W(65535, 65535)
    /\ regs[1] = U(1)

(* C16: JALR with the same register r # 0 as rs1 and rd jumps to (old value
   of r + sign-extended immediate) mod 2^32 and leaves old PC + 4 in r: the
   target is taken from r before the link value is written. *)
C16_JalrAliasing ==
    (Executed /\ Opcode = 103 /\ Funct3 = 0 /\ Rd = Rs1 /\ Rd # 0)
        => /\ outcome = "ok"
           /\ \E e \in JalrTable : e[1] = instr
           /\ \A e \in JalrTable :
                 e[1] = instr => pc = wrapping_add(pre.regs[Rd], I(e[2]))
           /\ regs[Rd] = wrapping_add(pre.pc, U(4))

\* JALR x1, 8(x1) at pc = 0x100 with x1 = 0x12345678: pc = 0x12345680 and
\* x1 = 0x104
C16_Witness ==
    /\ outcome = "ok" /\ Opcode = 103
    /\ Rd = 1 /\ Rs1 = 1
    /\ pre.pc = U(256) /\ pre.regs[1] = W(4660, 22136)
    /\ pc = W(4660, 22144)
    /\ regs[1] = U(260)

(* C17: JALR (funct3 0) sets the next PC to (rs1 + sign-extended imm12) mod
   2^32, bit 0 included: the PC after the step has the parity of
   rs1 + imm, so an odd sum leaves the same odd value in PC. *)
C17_JalrTargetNotMasked ==
    (Executed /\ Opcode = 103 /\ Funct3 = 0)
        => /\ outcome = "ok"
           /\ \A e \in JalrTable :
                 e[1] = instr =>
                    /\ pc = wrapping_add(pre.regs[Rs1], I(e[2]))
                    /\ Lo(pc) % 2 = (Lo(pre.regs[Rs1]) + e[2]) % 2

\* JALR x0, 0(x1) with x1 = 0x7FFFFFFF: pc = 0x7FFFFFFF, odd
C17_Witness ==
    /\ outcome = "ok" /\ Opcode = 103 /\ Funct3 = 0
    /\ Rd = 0 /\ Rs1 = 1
    /\ pre.regs[1] = W(32767, 65535) /\ i_imm(instr) = Zero
    /\ pc = W(32767, 65535)
    /\ Lo(pc) % 2 = 1

(* C18: JAL sets the next PC to (old PC + sign-extended J-immediate) mod
   2^32, for positive and negative offsets, and writes old PC + 4 to rd;
   with rd = 0 the jump is taken all the same and no register changes (x0
   stays 0).  The offset is the one the word was encoded from. *)
C18_JalLinkAndJump ==
    (Executed /\ Opcode = 111)
        => /\ outcome = "ok"
           /\ \E e \in JalTable : e[1] = instr
           /\ \A e \in JalTable :
                 e[1] = instr => pc = wrapping_add(pre.pc, I(e[2]))
           /\ Rd # 0 => regs[Rd] = wrapping_add(pre.pc, U(4))
           /\ regs[0] = Zero
           /\ \A r \in 0..NumRegs - 1 : r # Rd => regs[r] = pre.regs[r]
           /\ bus = pre.bus

\* JAL x0, -8 at pc = 0x100: pc = 0xF8 and no register changes
C18_Witness ==
    /\ outcome = "ok" /\ Opcode = 111 /\ Rd = 0
    /\ pre.pc = U(256)
    /\ pc = U(248)
    /\ regs = pre.regs

\* a 20-bit immediate shifted left by 12
Upper(imm) == W(imm \div 16, (imm % 16) * 4096)

(* C19: AUIPC writes (PC of the instruction + (imm20 << 12)) mod 2^32 to
   rd # 0 and leaves PC to its caller; at PC 0xFFFFF000 with immediate 1 the
   sum wraps to 0; and result - PC, mod 2^32, is imm20 << 12 at every PC, so
   the results at two PCs with the same immediate differ by the difference of
   the PCs.  The immediate is the one the word was encoded from. *)
C19_AuipcPcRelative ==
    (Called /\ instr # NoInstr /\ Opcode = 23)
        => /\ outcome = "ok"
           /\ pc = pre.pc
           /\ \E e \in AuipcTable : e[1] = instr
           /\ \A e \in AuipcTable :
                 (e[1] = instr /\ Rd # 0) =>
                    /\ regs[Rd] = wrapping_add(pre.pc, Upper(e[2]))
                    /\ wrapping_sub(regs[Rd], pre.pc) = Upper(e[2])
                    /\ (pre.pc = W(65535, 61440) /\ e[2] = 1) => regs[Rd] = Zero
           /\ \A r \in 0..NumRegs - 1 : r # Rd => regs[r] = pre.regs[r]

\* AUIPC x1, 1 at pc = 0xFFFFF000 with x1 = 0x200 before: x1 = 0
C19_Witness ==
    /\ outcome = "ok" /\ instr # NoInstr /\ Opcode = 23 /\ Rd = 1
    /\ field(instr, 12, 20) = 1
    /\ pre.pc = W(65535, 61440)
    /\ pre.regs[1] = U(512)
    /\ regs[1] = Zero

(* C20: LUI writes instruction bits 31:12 shifted left by 12 to rd # 0: the
   low 12 bits of rd are 0 and the upper 20 are the immediate, whatever rd
   held before, and no other register changes.  The immediate is the one
   the word was encoded from. *)
C20_LuiUpperImmediate ==
    (Executed /\ Opcode = 55)
        => /\ outcome = "ok"
           /\ \E e \in LuiTable : e[1] = instr
           /\ \A e \in LuiTable :
                 (e[1] = instr /\ Rd # 0) =>
                    /\ regs[Rd] = Upper(e[2])
                    /\ Lo(regs[Rd]) % 4096 = 0
                    /\ Hi(regs[Rd]) * 16 + Lo(regs[Rd]) \div 4096 = e[2]
           /\ \A r \in 0..NumRegs - 1 : r # Rd => regs[r] = pre.regs[r]

\* LUI x1, 0x12345 with x1 = 0xFFFFFFFF before: x1 = 0x12345000
C20_Witness ==
    /\ outcome = "ok" /\ Opcode = 55 /\ Rd = 1
    /\ pre.regs[1] = W(65535, 65535)
    /\ regs[1] = W(4660, 20480)

\* every bit of a word flipped
Complement(w) == W(65535 - Hi(w), 65535 - Lo(w))

\* the last call ran XORI (f3 = 4) or ORI (f3 = 6) with the immediate field
\* 0xFFF
RanWithMinusOne(f3) ==
    /\ Called /\ instr # NoInstr
    /\ Opcode = 19 /\ Funct3 = f3 /\ field(instr, 20, 12) = 4095

(* C21: the 12-bit immediate 0xFFF counts as -1, all 32 bits set: XORI with
   it writes the bitwise complement of rs1 to rd # 0 and ORI with it writes
   0xFFFFFFFF, for every rs1 value; and a second XORI -1 applied to the result
   of a first gives back the value the first one read. *)
C21_XoriMinusOneComplements ==
    [][ /\ RanWithMinusOne(4)' =>
              /\ outcome' = "ok"
              /\ Rd' # 0 => regs'[Rd'] = Complement(regs[Rs1'])
        /\ RanWithMinusOne(6)' =>
              /\ outcome' = "ok"
              /\ Rd' # 0 => regs'[Rd'] = W(65535, 65535)
        /\ (RanWithMinusOne(4) /\ Rd # 0 /\ RanWithMinusOne(4)'
               /\ steps' = steps + 1 /\ Rs1' = Rd /\ Rd' # 0)
              => regs'[Rd'] = pre.regs[Rs1] ]_vars

\* XORI x3, x2, -1 then XORI x2, x3, -1 with x2 = 0xDEADBEEF: x3 = 0x21524110
\* and x2 = 0xDEADBEEF again
C21_Witness ==
    /\ RanWithMinusOne(4) /\ outcome = "ok" /\ steps = 2
    /\ Rd = 2 /\ Rs1 = 3
    /\ regs[3] = W(8530, 16656)
    /\ regs[2] = W(57005, 48879)

\* bit i (0 the least significant) of a word
Bit(w, i) == ((IF i < 16 THEN Lo(w) ELSE Hi(w)) \div 2 ^ (i % 16)) % 2

\* r is a shifted left by n, zeros coming in
IsShl(r, a, n) ==
    \A i \in 0..31 : Bit(r, i) = IF i >= n THEN Bit(a, i - n) ELSE 0

\* r is a shifted right by n, the bit fill coming in
IsShr(r, a, n, fill) ==
    \A i \in 0..31 : Bit(r, i) = IF i + n <= 31 THEN Bit(a, i + n) ELSE fill

\* the last call ran a shift: R-type SLL, SRL, SRA (funct7 0x00 or 0x20 as
\* the operation requires), SLLI, or SRLI / SRAI with imm[11:5] 0x00 / 0x20
RanShift ==
    /\ Called /\ instr # NoInstr /\ Rd # 0
    /\ \/ Opcode = 51 /\ Funct3 = 1 /\ Funct7 = 0
       \/ Opcode = 19 /\ Funct3 = 1
       \/ Opcode \in {51, 19} /\ Funct3 = 5 /\ Funct7 \in {0, 32}

\* the low 5 bits of the shift operand: of the rs2 value, or of the immediate
ShiftAmount == IF Opcode = 51 THEN Lo(pre.regs[Rs2]) % 32 ELSE field(instr, 20, 5)

(* C22: a shift moves rs1 by the low 5 bits of its operand only (the rs2
   value for SLL / SRL / SRA, the immediate for SLLI / SRLI / SRAI), bit
   by bit: left shifts and the logical right shift (funct7 0x00) take in
   zeros, the arithmetic right shift (funct7 0x20) copies of bit 31 of rs1;
   an rs2 value of 32 and an SLLI immediate of 32 leave rs1 as it is. *)
C22_ShiftLow5Bits ==
    RanShift
        => /\ outcome = "ok"
           /\ Funct3 = 1 => IsShl(regs[Rd], pre.regs[Rs1], ShiftAmount)
           /\ (Funct3 = 5 /\ Funct7 = 0)
                 => IsShr(regs[Rd], pre.regs[Rs1], ShiftAmount, 0)
           /\ (Funct3 = 5 /\ Funct7 = 32)
                 => IsShr(regs[Rd], pre.regs[Rs1], ShiftAmount,
                          Bit(pre.regs[Rs1], 31))
           /\ (Opcode = 51 /\ pre.regs[Rs2] = U(32)) => regs[Rd] = pre.regs[Rs1]
           /\ (Opcode = 19 /\ field(instr, 20, 12) = 32) => regs[Rd] = pre.regs[Rs1]

\* SRA x3, x1, x2 with x1 = 0xFFFFFC00 and x2 = 32: x3 = 0xFFFFFC00
C22_Witness ==
    /\ RanShift /\ outcome = "ok"
    /\ Opcode = 51 /\ Funct3 = 5 /\ Funct7 = 32
    /\ pre.regs[1] = W(65535, 64512) /\ pre.regs[2] = U(32)
    /\ regs[3] = W(65535, 64512)

\* SRAI x3, x1, 31 with x1 = 0x80000001: x3 = 0xFFFFFFFF
C22_WitnessImmediate ==
    /\ RanShift /\ outcome = "ok"
    /\ Opcode = 19 /\ Funct3 = 5 /\ Funct7 = 32
    /\ field(instr, 20, 5) = 31
    /\ pre.regs[1] = W(32768, 1)
    /\ regs[3] = W(65535, 65535)

\* the encoders give different words for different offsets, so a word
\* determines the offset it was encoded from
EncodersInjective ==
    /\ Cardinality({encode_btype(I(v), 0, 0, 0) : v \in BImms}) = Cardinality(BImms)
    /\ Cardinality({encode_jal(I(v), 0) : v \in JImms}) = Cardinality(JImms)
    /\ Cardinality({encode_stype(I(v), 2, 1, 0) : v \in Imm12}) = Cardinality(Imm12)

\* the signed distance the last call moved pc by
PcOffset == SInt(wrapping_sub(pc, pre.pc))

(* C23: decoding inverts the encoders.  A taken branch or a JAL moves pc by
   a signed offset v that is even and in range (B: [-4096, 4094], J:
   [-1048576, 1048574]), and a successful SB writes its byte at rs1 + v with
   v in [-2048, 2047]; in each case the word executed is exactly
   encode_btype / encode_jal / encode_stype of v and the decoder yields v
   sign-extended.  As the encoders are injective, v is the value the word was
   encoded from. *)
C23_DecodeInvertsEncode ==
    /\ EncodersInjective
    /\ (Called /\ instr # NoInstr /\ Opcode = 99)
          => /\ outcome = "ok"
             /\ PcOffset \in BImms
             /\ PcOffset % 2 = 0
             /\ encode_btype(I(PcOffset), Rs1, Rs2, Funct3) = instr
             /\ b_imm(instr) = I(PcOffset)
    /\ (Called /\ instr # NoInstr /\ Opcode = 111)
          => /\ outcome = "ok"
             /\ PcOffset \in -1048576..1048574
             /\ PcOffset % 2 = 0
             /\ encode_jal(I(PcOffset), Rd) = instr
             /\ j_imm(instr) = I(PcOffset)
    /\ (Stored /\ Funct3 = 0 /\ pre.regs[Rs2] = U(171))
          => /\ \E x \in 0..BusLen - 1 : bus[x] # pre.bus[x]
             /\ \A x \in 0..BusLen - 1 :
                   bus[x] # pre.bus[x] =>
                      /\ x - SInt(pre.regs[Rs1]) \in Imm12
                      /\ encode_stype(I(x - SInt(pre.regs[Rs1])), Rs2, Rs1, Funct3) = instr
                      /\ s_imm(instr) = I(x - SInt(pre.regs[Rs1]))

\* BGEU x31, x31 with offset -4096 at pc = 0x100: pc = 0xFFFFF100
C23_Witness ==
    /\ outcome = "ok" /\ instr # NoInstr
    /\ Opcode = 99 /\ Funct3 = 7 /\ Rs1 = 31
    /\ pre.pc = U(256)
    /\ PcOffset = -4096
    /\ pc = W(65535, 61696)

\* SB x2, -2048(x1) with x1 = 2048 writes 0xAB at address 0
C23_WitnessStore ==
    /\ Stored /\ Funct3 = 0
    /\ pre.regs[Rs1] = U(2048)
    /\ s_imm(instr) = I(-2048)
    /\ bus[0] = 171

\* JAL x1, -1048576 at pc = 0: pc = 0xFFF00000
C23_WitnessJal ==
    /\ outcome = "ok" /\ instr # NoInstr /\ Opcode = 111 /\ Rd = 1
    /\ pre.pc = Zero
    /\ PcOffset = -1048576
    /\ pc = W(65520, 0)

\* memory holds the countdown program that starts from n
CountdownLoaded(n) == ProgramInMemory(CountdownProgram(n))

\* bits 31:20 of the word at address 0: the n of ADDI x1, x0, n for n >= 0
StartCount == Hi(WordAt(0)) \div 16

\* the loop iteration a BNE has just ended after this many steps, 0 if none
Iteration == IF steps >= 5 /\ (steps - 2) % 3 = 0 THEN (steps - 2) \div 3 ELSE 0

(* C24: the program [ADDI x1,x0,n; ADDI x2,x0,0; ADDI x1,x1,-1;
   ADDI x3,x3,1; BNE x1,x2,-8], run from the initial state, never fails in
   its first 2 + 3n steps; after its k-th BNE (step 2 + 3k) x1 = n - k and
   x3 = k, the branch was taken (PC = 0x08) if k < n, and after exactly
   2 + 3n steps x1 = 0, x3 = n and PC = 0x14. *)
C24_CountdownTerminates ==
    \A n \in {StartCount} :
        (n \in LoopCounts /\ CountdownLoaded(n) /\ steps \in 1..(2 + 3 * n))
            => /\ outcome = "ok"
               /\ Iteration > 0
                    => /\ instr = encode_btype(I(-8), 1, 2, 1)
                       /\ regs[1] = U(n - Iteration)
                       /\ regs[3] = U(Iteration)
                       /\ Iteration < n => pc = U(8)
                       /\ Iteration = n => pc = U(20)

\* the countdown from 2047 after its 6143 steps
C24_Witness ==
    /\ CountdownLoaded(2047)
    /\ steps = 6143
    /\ outcome = "ok"
    /\ regs[1] = Zero /\ regs[3] = U(2047) /\ pc = U(20)

\* the countdown from 2047 in the middle: the 1000th BNE was taken
C24_WitnessTaken ==
    /\ CountdownLoaded(2047)
    /\ steps = 3002
    /\ regs[1] = U(1047) /\ regs[3] = U(1000) /\ pc = U(8)

\* the word at pc is BEQ x0, x0, 0
SpinAtPc ==
    /\ Hi(pc) = 0 /\ Lo(pc) + 4 <= BusLen
    /\ WordAt(Lo(pc)) = encode_btype(I(0), 0, 0, 0)

(* C26: with BEQ x0,x0,0 at the current PC a call of step() succeeds,
   executes that word, and leaves PC, every register and every memory byte
   as they were, so the next call finds the same machine state again. *)
C26_SelfBranchSpins ==
    [][(SpinAtPc /\ steps' = steps + 1)
          => /\ outcome' = "ok"
             /\ instr' = encode_btype(I(0), 0, 0, 0)
             /\ regs' = regs /\ pc' = pc /\ bus' = bus]_vars

\* the 6141st call at the self-branch behind two ADDI: still at PC 8
C26_Witness ==
    /\ SpinAtPc
    /\ steps = 6143
    /\ outcome = "ok"
    /\ instr = encode_btype(I(0), 0, 0, 0)
    /\ pc = U(8) /\ pre.pc = U(8)
    /\ regs[1] = U(5) /\ regs[2] = I(-7)
    /\ Unchanged

(* C30: from the initial state with all-zero 1024-byte memory, each of the
   first 256 calls of step() fetches the word 0 and changes nothing but PC,
   which it advances by 4; the 257th call, at PC = 1024, panics on the
   instruction fetch and leaves registers, memory and PC unchanged; PC never
   exceeds 1024 on this image. *)
C30_RunOffTheEnd ==
    bus = NewBus
        => /\ steps \in 1..256
                => /\ outcome = "ok"
                   /\ instr = Zero
                   /\ regs = pre.regs /\ bus = pre.bus
                   /\ pre.pc = U(4 * (steps - 1))
                   /\ pc = U(4 * steps)
           /\ steps = 257
                => /\ outcome = "panic"
                   /\ instr = NoInstr
                   /\ pre.pc = U(1024)
                   /\ Unchanged
           /\ Hi(pc) = 0 /\ Lo(pc) <= 1024
           /\ \A r \in 0..NumRegs - 1 : regs[r] = Zero

\* the 257th call has panicked at PC = 1024
C30_Witness ==
    /\ bus = NewBus
    /\ steps = 257
    /\ outcome = "panic"
    /\ pc = U(1024)

\* memory holds the LUI + ADDI pair for the constant c and nothing else
ConstLoaded(c) ==
    /\ ProgramInMemory(ConstProgram(c))
    /\ \A a \in 8..BusLen - 1 : bus[a] = 0

(* C25: for every 32-bit value C, LUI x1, ((C + 0x800) >> 12) & 0xFFFFF
   followed by ADDI x1, x1, lower, with lower the low 12 bits of C
   sign-extended, run from the initial state, leaves x1 = C after the two
   steps, both of which succeed. *)
C25_LuiAddiMaterialises ==
    \A c \in ConstValues :
        (ConstLoaded(c) /\ steps = 2) => (outcome = "ok" /\ regs[1] = c)

\* C = 0xDEADBEEF has been built by the pair
C25_Built ==
    /\ ConstLoaded(W(57005, 48879))
    /\ steps = 2 /\ outcome = "ok"
    /\ regs[1] = W(57005, 48879)

\* C = 0x7FFFFFFF: LUI x1, 0x80000 has run, ADDI x1, x1, -1 has failed
C25_Failed ==
    /\ ConstLoaded(W(32767, 65535))
    /\ steps = 2 /\ outcome = "panic"
    /\ regs[1] = W(32768, 0)

(* C27: a successful step of an R-type, I-type ALU, load, branch, JAL, JALR,
   LUI or AUIPC instruction leaves every memory byte unchanged; a successful
   store or branch leaves all 32 registers unchanged; every other of these
   instructions changes no register other than its rd. *)
C27_OnlyDestinationChanges ==
    (outcome = "ok" /\ instr # NoInstr)
        => /\ Opcode \in {51, 19, 3, 99, 111, 103, 55, 23} => bus = pre.bus
           /\ Opcode \in {35, 99} => regs = pre.regs
           /\ Opcode \in {51, 19, 3, 111, 103, 55, 23}
                 => \A r \in 0..NumRegs - 1 :
                       r # Rd => regs[r] = pre.regs[r]

\* ADD x1, x1, x2 with x1 = 0x12345678, x2 = 1: x1 changes, x2 stays
C27_Witness ==
    /\ outcome = "ok" /\ instr # NoInstr
    /\ Opcode = 51 /\ Funct3 = 0 /\ Funct7 = 0
    /\ Rd = 1 /\ Rs1 = 1 /\ Rs2 = 2
    /\ pre.regs[1] = W(4660, 22136) /\ pre.regs[2] = U(1)
    /\ regs[1] = W(4660, 22137) /\ regs[2] = U(1)
    /\ bus = pre.bus

\* SW x1, 8(x0) with x1 = 0x12345678: memory changes, no register does
C27_WitnessStore ==
    /\ Stored /\ Funct3 = 2
    /\ pre.regs[Rs2] = W(4660, 22136)
    /\ bus # pre.bus
    /\ regs = pre.regs

\* the last call ran a word whose funct3 names one operation only: an R-type
\* word with funct3 in {1, 2, 3, 4, 6, 7}, or SLLI
SingleOperation ==
    /\ Called /\ instr # NoInstr
    /\ \/ Opcode = 51 /\ Funct3 \in {1, 2, 3, 4, 6, 7}
       \/ Opcode = 19 /\ Funct3 = 1

\* r is the result of the base operation funct3 names, on the operands the
\* last call read: SLL, SLT, SLTU, XOR, OR, AND, or SLLI by bits 24:20
IsBaseResult(r) ==
    LET a == pre.regs[Rs1]
        b == pre.regs[Rs2]
    IN  IF Opcode = 19
        THEN IsShl(r, a, Rs2)
        ELSE CASE Funct3 = 1 -> IsShl(r, a, Lo(b) % 32)
               [] Funct3 = 2 -> r = U(IF SInt(a) < SInt(b) THEN 1 ELSE 0)
               [] Funct3 = 3 -> r = U(IF UOrd(a) < UOrd(b) THEN 1 ELSE 0)
               [] Funct3 = 4 ->
                    \A i \in 0..31 : Bit(r, i) = (Bit(a, i) + Bit(b, i)) % 2
               [] Funct3 = 6 ->
                    \A i \in 0..31 :
                       Bit(r, i) = IF Bit(a, i) + Bit(b, i) > 0 THEN 1 ELSE 0
               [] Funct3 = 7 ->
                    \A i \in 0..31 : Bit(r, i) = Bit(a, i) * Bit(b, i)
               [] OTHER -> FALSE

(* C28: handle_rtype with funct3 in {1, 2, 3, 4, 6, 7} and handle_itype with
   funct3 = 1 (SLLI) never reject the instruction, whatever its bits 31:25
   are, and write to rd the result of the base operation of the funct3; no
   other register and no memory byte changes.  An R-type word with
   funct7 = 0x01 is therefore executed as SLL, SLT, SLTU, XOR, OR or AND. *)
C28_Funct7Ignored ==
    SingleOperation
        => /\ outcome = "ok"
           /\ IsBaseResult(regs[Rd])
           /\ \A r \in 0..NumRegs - 1 : r # Rd => regs[r] = pre.regs[r]
           /\ bus = pre.bus

\* funct7 = 0x01, funct3 = 4 (the encoding of DIV) with x1 = 0x12345678,
\* x2 = 0xAB: x3 = x1 XOR x2 = 0x123456D3
C28_Witness ==
    /\ outcome = "ok" /\ instr # NoInstr
    /\ Opcode = 51 /\ Funct3 = 4 /\ Funct7 = 1 /\ Rd = 3
    /\ pre.regs[Rs1] = W(4660, 22136) /\ pre.regs[Rs2] = U(171)
    /\ regs[3] = W(4660, 22227)

\* SLLI x3, x1, 3 with imm[11:5] = 0x7F and x1 = 0x12345678: x3 = 0x91A2B3C0
C28_WitnessImmediate ==
    /\ outcome = "ok" /\ instr # NoInstr
    /\ Opcode = 19 /\ Funct3 = 1 /\ Funct7 = 127 /\ Rs2 = 3
    /\ pre.regs[Rs1] = W(4660, 22136)
    /\ regs[3] = W(37282, 46016)

\* four bytes can be fetched at pc
PcInRange == Hi(pc) = 0 /\ Lo(pc) + 4 <= BusLen

(* C29: a call of step() fetches the word memory holds at PC at the time of
   the call; in particular, when the step before it was a SW that wrote the
   word w to the four bytes at the address PC now has, the call fetches and
   executes w, not the word the program was loaded with at that address. *)
C29_FetchReadsCurrentMemory ==
    [][(steps' = steps + 1 /\ PcInRange)
          => /\ instr' = WordAt(Lo(pc))
             /\ (Stored /\ Funct3 = 2 /\ StoreAddr = pc)
                    => instr' = pre.regs[Rs2]]_vars

\* the fourth step ran at address 12 the word ADDI x5, x0, 99 that the SW
\* before it had put there in place of ADDI x5, x0, 7: x5 = 99
C29_Witness ==
    /\ steps = 4 /\ outcome = "ok"
    /\ pre.pc = U(12)
    /\ instr = encode_itype(I(99), 0, 0, 5)
    /\ regs[1] = encode_itype(I(99), 0, 0, 5)
    /\ WordAt(8) = encode_stype(I(12), 1, 0, 2)
    /\ regs[5] = U(99)

=============================================================================
